---- MODULE Spec2Model ----
(***************************************************************************)
(* A model of the DXF entity readers and writers of libdxf                 *)
(* (dxf_<kind>_read / dxf_<kind>_write in src/src/<kind>.c).               *)
(*                                                                         *)
(* A DXF file is a text of lines; a record is a run of (group code line,   *)
(* value line) pairs.  A reader is entered after its caller consumed the   *)
(* record's "  0" / kind-name pair, scans one line with "%[^\n]" and then  *)
(* runs a while loop that compares that line with the group codes it       *)
(* knows; every branch scans a value with fscanf.  A writer prints the     *)
(* record with fprintf.                                                    *)
(*                                                                         *)
(* Text.  The stream is the sequence of the texts that white space         *)
(* separates in the file, in general one per line (every scan the readers  *)
(* make inside the loop ends by skipping white space, so the blanks that   *)
(* pad a printed group code and the empty line an empty string prints are  *)
(* left out).  A text is one of                                            *)
(*    D(n)       the decimal integer n, as "%d" prints it                  *)
(*    F(m)       what "%f" prints: m counts millionths                     *)
(*    X(n)       what "%x" prints when it holds a letter a..f              *)
(*    S(s)       any other text s (a name)                                 *)
(*    FN(m, c)   F(m) followed by the letter n and the text of c           *)
(*               (c = -1: nothing follows the n)                           *)
(*    Rem(t)     what is left of t after a scan matched a proper prefix    *)
(* Real numbers are counted in halves of a millionth: an even count is a   *)
(* number "%f" prints exactly, an odd count one that lies between two      *)
(* numbers it can print.                                                   *)
(***************************************************************************)
EXTENDS Integers, Sequences, FiniteSets, TLC

D(n) == <<"d", n>>
F(m) == <<"f", m>>
X(n) == <<"x", n>>
S(s) == <<"s", s>>
FN(m, c) == <<"fn", m, c>>
Rem(t) == <<"r", t>>

\* The empty C string "".
EMPTY == S("")

\* One unit (1.0) of a C double, counted in halves of a millionth.
ONE == 2 * 1000000

\* A whole number n as a C double.
Real(n) == n * ONE

---------------------------------------------------------------------------
(* printf conversions *)

\* "%d": the decimal text of n.
FmtD(n) == D(n)

\* "%f": six decimals, rounded to nearest.
FmtF(v) == F((v + 1) \div 2)

RECURSIVE HexDigits(_)
\* The hexadecimal digits of n >= 0, most significant first.
HexDigits(n) == IF n < 16 THEN <<n>> ELSE Append(HexDigits(n \div 16), n % 16)

RECURSIVE DecReading(_)
\* The number a digit sequence spells when read in base ten.
DecReading(ds) ==
    IF ds = <<>> THEN 0 ELSE 10 * DecReading(SubSeq(ds, 1, Len(ds) - 1)) + ds[Len(ds)]

\* "%x": the hexadecimal text of n >= 0.  A text without letters is the
\* same text as the decimal number with those digits.
FmtX(n) ==
    LET ds == HexDigits(n)
    IN  IF \A i \in 1..Len(ds) : ds[i] < 10 THEN D(DecReading(ds)) ELSE X(n)

\* "%s": the text itself.
FmtS(t) == t

---------------------------------------------------------------------------
(* scanf conversions *)

RECURSIVE HexOfDec(_)
\* The number the decimal digits of n >= 0 spell when read in base 16.
HexOfDec(n) == IF n < 10 THEN n ELSE 16 * HexOfDec(n \div 10) + (n % 10)

RECURSIVE LeadingDec(_)
\* The number spelt by the longest prefix of decimal digits of ds.
LeadingDec(ds) ==
    IF ds = <<>> \/ ds[1] >= 10 THEN <<>>
    ELSE <<ds[1]>> \o LeadingDec(Tail(ds))

\* The value of the longest prefix of hexadecimal digits that the names
\* used here begin with (-1: the name begins with no such digit).
HexPrefix(s) ==
    CASE s \in {"AcDbEntity"} -> 708030
      [] s \in {"AcDbCircle"} -> 708028
      [] s \in {"AcDbArc", "AcDbAlignedDimension"} -> 708026
      [] s \in {"AcDbBlockBegin"} -> 708027
      [] s \in {"AcDbDimension", "AcDbDiametricDimension"} -> 708029
      [] s \in {"AcDb3PointAngularDimension"} -> 708019
      [] s \in {"AcDbPolyline", "AcDbSpline", "AcDbHelix", "AcDbSymbolTable",
                "AcDbRotatedDimension", "AcDbRadialDimension",
                "AcDbOrdinateDimension", "AcDbMText", "AcDbLine",
                "AcDbOleFrame"} -> 44251
      [] s \in {"ARC"} -> 10
      [] s \in {"BYLAYER", "Bogus"} -> 11
      [] s \in {"DIMENSION"} -> 13
      [] s \in {"DASHED"} -> 218
      [] s \in {"ENDSEC"} -> 14
      [] OTHER -> -1

NoMatch == [ok |-> FALSE, val |-> 0, whole |-> FALSE]
Match(v, w) == [ok |-> TRUE, val |-> v, whole |-> w]

\* A short (16 bits, two's complement) holding v.
Short(v) == ((v + 32768) % 65536) - 32768

\* What a numeric conversion makes of the text t: whether it matches, the
\* value it stores, and whether it used up the whole text.
\*   fmt: "x" (%x), "d" (%d, %ld), "hd" (%hd), "lf" (%lf)
ScanNum(fmt, t) ==
    LET int(v) == IF fmt = "hd" THEN Short(v) ELSE v
    IN  CASE t[1] = "d" ->
               IF fmt = "x" THEN (IF t[2] >= 0 THEN Match(HexOfDec(t[2]), TRUE)
                                  ELSE Match(0 - HexOfDec(0 - t[2]), TRUE))
               ELSE IF fmt = "lf" THEN Match(Real(t[2]), TRUE)
               ELSE Match(int(t[2]), TRUE)
          [] t[1] = "f" ->
               IF fmt = "lf" THEN Match(t[2] * 2, TRUE)
               ELSE IF fmt = "x" THEN Match(HexOfDec(t[2] \div 1000000), FALSE)
               ELSE Match(int(t[2] \div 1000000), FALSE)
          [] t[1] = "fn" ->
               IF fmt = "lf" THEN Match(t[2] * 2, FALSE)
               ELSE IF fmt = "x" THEN Match(HexOfDec(t[2] \div 1000000), FALSE)
               ELSE Match(int(t[2] \div 1000000), FALSE)
          [] t[1] = "x" ->
               IF fmt = "x" THEN Match(t[2], TRUE)
               ELSE LET p == LeadingDec(HexDigits(t[2]))
                    IN  IF p = <<>> THEN NoMatch
                        ELSE IF fmt = "lf" THEN Match(Real(DecReading(p)), FALSE)
                        ELSE Match(int(DecReading(p)), FALSE)
          [] t[1] = "s" ->
               IF fmt = "x" /\ HexPrefix(t[2]) >= 0 THEN Match(HexPrefix(t[2]), FALSE)
               ELSE NoMatch
          [] t[1] = "r" ->
               \* what an integer conversion left of a "%f" text: its fraction
               IF fmt = "lf" /\ t[2][1] = "f"
               THEN Match((t[2][2] % 1000000) * 2, TRUE)
               ELSE NoMatch
          [] OTHER -> NoMatch

RECURSIVE Digits(_)
\* The number of decimal digits of n >= 0.
Digits(n) == IF n < 10 THEN 1 ELSE 1 + Digits(n \div 10)

\* strlen of a text.
StrLen(t) ==
    CASE t[1] = "d" -> IF t[2] < 0 THEN 1 + Digits(0 - t[2]) ELSE Digits(t[2])
      [] t[1] = "f" -> Digits(t[2] \div 1000000) + 7
      [] t[1] = "fn" -> Digits(t[2] \div 1000000) + 8
                        + (IF t[3] < 0 THEN 0 ELSE Digits(t[3]))
      [] t[1] = "x" -> Len(HexDigits(t[2]))
      [] t[1] = "s" -> Len(t[2])
      [] OTHER -> 1

---------------------------------------------------------------------------
(* Program constants.  global.h, which defines them, is not part of the    *)
(* sources at hand; the values are those the sources' comments give, and   *)
(* the releases are ordered as their names say.                            *)

AutoCAD_11 == 11
AutoCAD_12 == 12
AutoCAD_13 == 13
AutoCAD_14 == 14
AutoCAD_2000 == 2000
AutoCAD_2006 == 2006
AutoCAD_2007 == 2007

DXF_MODELSPACE == 0
DXF_PAPERSPACE == 1
DXF_COLOR_BYLAYER == 256
DXF_DEFAULT_VISIBILITY == 0
DXF_DEFAULT_LINETYPE_SCALE == Real(1)
DXF_DEFAULT_LINETYPE == S("BYLAYER")
DXF_DEFAULT_LAYER == D(0)
DXF_DEFAULT_TEXTSTYLE == S("STANDARD")

EXIT_SUCCESS == 0
EXIT_FAILURE == 1

\* A NULL pointer to an entity, and a NULL char pointer.
NULL == [null |-> TRUE]
NULLSTR == <<"null">>

---------------------------------------------------------------------------
(* Bounds of the model *)

\* Loop iterations followed in one read call.
MaxIters == 12
\* Code/value pairs of the enumerated input records.
MaxPairs == 2

---------------------------------------------------------------------------
(* Branch tables: one entry per branch of a reader's if / else-if chain,   *)
(* in the order of the source.                                             *)
(*   c    the group code the branch compares temp_string with              *)
(*   g    the rest of the branch's condition                               *)
(*   act  what the branch does:                                            *)
(*        "scan"     fscanf of a number (fmt) into the member fld; bump:   *)
(*                   the counter the branch then increments ("": none)     *)
(*        "ascan"    fscanf of a number into element idx[ix] of the array  *)
(*                   fld; idx[ix] is then incremented                      *)
(*        "vscan"    fscanf of a number into the member fld of the vertex  *)
(*                   iter points to; nxt: the branch then appends a new    *)
(*                   vertex and moves iter to it                           *)
(*        "str"      fscanf "%s" into the string member fld; also: the     *)
(*                   branch is an if of its own before the chain, so the   *)
(*                   chain's final else runs as well                       *)
(*        "astr"     fscanf "%s" into element idx[ix] of the array fld     *)
(*        "skip"     nothing but the line count                            *)
(*        "marker"   fscanf "%s" into temp_string, then the subclass       *)
(*                   marker test against the names ok (chk: whether the    *)
(*                   branch tests at all; nest: the name that starts the   *)
(*                   nested loop, EMPTY if there is none)                  *)
(*        "comment"  fscanf "%s" into temp_string, printed to stdout       *)

Scan(c, fmt, fld) ==
    [c |-> c, g |-> "any", act |-> "scan", fmt |-> fmt, fld |-> fld, bump |-> ""]
ScanIf(g, c, fmt, fld) ==
    [c |-> c, g |-> g, act |-> "scan", fmt |-> fmt, fld |-> fld, bump |-> ""]
ScanBump(c, fmt, fld, ix) ==
    [c |-> c, g |-> "any", act |-> "scan", fmt |-> fmt, fld |-> fld, bump |-> ix]
AScan(c, fld, ix) ==
    [c |-> c, g |-> "any", act |-> "ascan", fmt |-> "lf", fld |-> fld, ix |-> ix]
VScan(c, fld, nxt) ==
    [c |-> c, g |-> "any", act |-> "vscan", fmt |-> "lf", fld |-> fld, nxt |-> nxt]
Str(c, fld) == [c |-> c, g |-> "any", act |-> "str", fld |-> fld, also |-> FALSE]
StrAlso(c, fld) == [c |-> c, g |-> "any", act |-> "str", fld |-> fld, also |-> TRUE]
AStr(c, fld, ix) == [c |-> c, g |-> "any", act |-> "astr", fld |-> fld, ix |-> ix]
Skip(g, c) == [c |-> c, g |-> g, act |-> "skip"]
Marker(g, ok) ==
    [c |-> 100, g |-> g, act |-> "marker", chk |-> TRUE, ok |-> ok, nest |-> EMPTY]
MarkerUnchecked(g) ==
    [c |-> 100, g |-> g, act |-> "marker", chk |-> FALSE, ok |-> {}, nest |-> EMPTY]
MarkerNest(g, ok, nest) ==
    [c |-> 100, g |-> g, act |-> "marker", chk |-> TRUE, ok |-> ok, nest |-> nest]
Comment == [c |-> 999, g |-> "any", act |-> "comment"]

\* The part of a branch condition that is not the comparison of temp_string.
\* "le11_elev_assign" is  (elevation = 0.0)  written for  (elevation != 0.0):
\* the assignment's value, 0.0, is false; "le11_z0_assign" is  (z0 = 0.0).
GuardHolds(g, ver, e) ==
    CASE g = "any" -> TRUE
      [] g = "le11_elev_ne0" -> ver <= AutoCAD_11 /\ e.elevation # 0
      [] g = "le11_elev_assign" -> FALSE
      [] g = "le11_z0_assign" -> FALSE
      [] g = "ge12" -> ver >= AutoCAD_12
      [] g = "ge13" -> ver >= AutoCAD_13
      [] g = "le2006" -> ver <= AutoCAD_2006
      [] g = "ge2007" -> ver >= AutoCAD_2007
      [] OTHER -> FALSE

---------------------------------------------------------------------------
(* Arrays of DXF_MAX_PARAM elements, kept as the sequence of the elements  *)
(* up to the last one that differs from what init put there.               *)

\* The capacity of those arrays.  global.h, which defines it, is not part
\* of the sources at hand; the model takes a capacity that a record of a
\* few groups exceeds.
DXF_MAX_PARAM == 4

RECURSIVE Trim(_, _)
Trim(a, d) ==
    IF a # <<>> /\ a[Len(a)] = d THEN Trim(SubSeq(a, 1, Len(a) - 1), d) ELSE a

AGet(a, i, d) == IF i < Len(a) THEN a[i + 1] ELSE d

ASet(a, i, v, d) ==
    Trim(IF i < Len(a) THEN [a EXCEPT ![i + 1] = v]
         ELSE a \o [j \in 1..(i - Len(a)) |-> d] \o <<v>>, d)

---------------------------------------------------------------------------
(* ARC  (arc.c) *)

dxf_arc_init ==
    [id_code |-> 0, linetype |-> DXF_DEFAULT_LINETYPE, layer |-> DXF_DEFAULT_LAYER,
     x0 |-> 0, y0 |-> 0, z0 |-> 0, extr_x0 |-> 0, extr_y0 |-> 0, extr_z0 |-> 0,
     elevation |-> 0, thickness |-> 0,
     linetype_scale |-> DXF_DEFAULT_LINETYPE_SCALE,
     visibility |-> DXF_DEFAULT_VISIBILITY,
     radius |-> 0, start_angle |-> 0, end_angle |-> 0,
     color |-> DXF_COLOR_BYLAYER, paperspace |-> DXF_MODELSPACE,
     dictionary_owner_soft |-> EMPTY, dictionary_owner_hard |-> EMPTY]

arc_branches ==
    << Scan(5, "x", "id_code"), Str(6, "linetype"), Str(8, "layer"),
       Scan(10, "lf", "x0"), Scan(20, "lf", "y0"), Scan(30, "lf", "z0"),
       ScanIf("le11_elev_ne0", 38, "lf", "elevation"),
       Scan(39, "lf", "thickness"), Scan(40, "lf", "radius"),
       Scan(48, "lf", "linetype_scale"),
       Scan(50, "lf", "start_angle"), Scan(51, "lf", "end_angle"),
       Scan(60, "hd", "visibility"), Scan(62, "d", "color"),
       Scan(67, "d", "paperspace"),
       Marker("ge13", {S("AcDbEntity"), S("AcDbCircle")}),
       Scan(210, "lf", "extr_x0"), Scan(220, "lf", "extr_y0"),
       Scan(230, "lf", "extr_z0"),
       Str(330, "dictionary_owner_soft"), Str(360, "dictionary_owner_hard"),
       Comment >>

---------------------------------------------------------------------------
(* Writers.  A writer's result: the value it returns, the entity as it     *)
(* leaves it, the lines it printed to the file and its messages.           *)

Pair(c, v) == <<D(c), v>>
Opt(cond, lines) == IF cond THEN lines ELSE <<>>
WriteFails(e, msg) == [ret |-> EXIT_FAILURE, ent |-> e, out |-> <<>>, diag |-> <<msg>>]
WriteDone(e, lines, msgs) == [ret |-> EXIT_SUCCESS, ent |-> e, out |-> lines, diag |-> msgs]

\* The application-defined groups (code 102) every entity writer prints.
OwnerGroups(ver, e) ==
    Opt(e.dictionary_owner_soft # EMPTY /\ ver >= AutoCAD_14,
        Pair(102, S("{ACAD_REACTORS")) \o Pair(330, FmtS(e.dictionary_owner_soft))
          \o Pair(102, S("}")))
    \o Opt(e.dictionary_owner_hard # EMPTY /\ ver >= AutoCAD_14,
        Pair(102, S("{ACAD_XDICTIONARY")) \o Pair(360, FmtS(e.dictionary_owner_hard))
          \o Pair(102, S("}")))

dxf_arc_write(fpnull, ver, flat, arc) ==
    IF fpnull THEN WriteFails(arc, "null_fp")
    ELSE IF arc = NULL THEN WriteFails(arc, "null_entity")
    ELSE IF arc.start_angle = arc.end_angle THEN WriteFails(arc, "identical_angles")
    ELSE IF arc.start_angle > Real(360) THEN WriteFails(arc, "start_angle_gt_360")
    ELSE IF arc.start_angle < 0 THEN WriteFails(arc, "start_angle_lt_0")
    ELSE IF arc.end_angle > Real(360) THEN WriteFails(arc, "end_angle_gt_360")
    ELSE IF arc.end_angle < 0 THEN WriteFails(arc, "end_angle_lt_0")
    ELSE IF arc.radius = 0 THEN WriteFails(arc, "radius_0")
    ELSE
    LET a1 == IF arc.linetype = EMPTY
              THEN [arc EXCEPT !.linetype = DXF_DEFAULT_LINETYPE] ELSE arc
        a == IF a1.layer = EMPTY THEN [a1 EXCEPT !.layer = DXF_DEFAULT_LAYER] ELSE a1
        msgs == Opt(arc.linetype = EMPTY, <<"empty_linetype">>)
                \o Opt(a1.layer = EMPTY, <<"empty_layer">>)
    IN  WriteDone(a,
          Pair(0, S("ARC"))
          \o Opt(a.id_code # -1, Pair(5, FmtX(a.id_code)))
          \o OwnerGroups(ver, a)
          \o Opt(ver >= AutoCAD_13, Pair(100, S("AcDbEntity")))
          \o Opt(a.paperspace = DXF_PAPERSPACE, Pair(67, FmtD(DXF_PAPERSPACE)))
          \o Pair(8, FmtS(a.layer))
          \o Opt(a.linetype # DXF_DEFAULT_LINETYPE, Pair(6, FmtS(a.linetype)))
          \o Opt(ver <= AutoCAD_11 /\ flat # 0 /\ a.elevation # 0,
                 Pair(38, FmtF(a.elevation)))
          \o Opt(a.color # DXF_COLOR_BYLAYER, Pair(62, FmtD(a.color)))
          \o Opt(a.linetype_scale # Real(1), Pair(48, FmtF(a.linetype_scale)))
          \o Opt(a.visibility # 0, Pair(60, FmtD(a.visibility)))
          \o Opt(ver >= AutoCAD_13, Pair(100, S("AcDbCircle")))
          \o Opt(a.thickness # 0, Pair(39, FmtF(a.thickness)))
          \o Pair(10, FmtF(a.x0)) \o Pair(20, FmtF(a.y0)) \o Pair(30, FmtF(a.z0))
          \o Pair(40, FmtF(a.radius))
          \o Opt(ver >= AutoCAD_13, Pair(100, S("AcDbArc")))
          \o Pair(50, FmtF(a.start_angle)) \o Pair(51, FmtF(a.end_angle))
          \o Opt(ver >= AutoCAD_12 /\ a.extr_x0 # 0 /\ a.extr_y0 # 0
                   /\ a.extr_z0 # Real(1),
                 Pair(210, FmtF(a.extr_x0)) \o Pair(220, FmtF(a.extr_y0))
                   \o Pair(230, FmtF(a.extr_z0))),
          msgs)

---------------------------------------------------------------------------
(* TABLE  (table.c) *)

dxf_table_init == [id_code |-> 0, table_name |-> EMPTY, max_table_entries |-> 0]

table_branches ==
    << Scan(5, "x", "id_code"), Str(2, "table_name"),
       Scan(70, "d", "max_table_entries"), Comment >>

\* dxf_table_write as it would be if it closed the record with a code 0
\* of its own.
dxf_table_write_closed(fpnull, ver, flat, dxf_table) ==
    IF fpnull THEN WriteFails(dxf_table, "null_fp")
    ELSE IF dxf_table = NULL THEN WriteFails(dxf_table, "null_entity")
    ELSE WriteDone(dxf_table,
           Pair(0, S("TABLE"))
           \o Pair(2, FmtS(dxf_table.table_name))
           \o Opt(dxf_table.id_code # -1, Pair(5, FmtX(dxf_table.id_code)))
           \o Opt(ver >= AutoCAD_13, Pair(100, S("AcDbSymbolTable")))
           \o Pair(70, FmtD(dxf_table.max_table_entries))
           \o Pair(0, S("ENDTAB")),
           <<>>)

dxf_table_write(fpnull, ver, flat, dxf_table) ==
    IF fpnull THEN WriteFails(dxf_table, "null_fp")
    ELSE IF dxf_table = NULL THEN WriteFails(dxf_table, "null_entity")
    ELSE WriteDone(dxf_table,
           Pair(0, S("TABLE"))
           \o Pair(2, FmtS(dxf_table.table_name))
           \o Opt(dxf_table.id_code # -1, Pair(5, FmtX(dxf_table.id_code)))
           \o Opt(ver >= AutoCAD_13, Pair(100, S("AcDbSymbolTable")))
           \o Pair(70, FmtD(dxf_table.max_table_entries)),
           <<>>)

---------------------------------------------------------------------------
(* LWPOLYLINE  (lwpolyline.c) *)

\* A vertex as dxf_vertex_new leaves it: like every dxf_<kind>_new, it
\* returns zeroed memory.
dxf_vertex_new == [x0 |-> 0, y0 |-> 0, start_width |-> 0, end_width |-> 0, bulge |-> 0]

\* vertices: the linked list of vertices, in order.
dxf_lwpolyline_init ==
    [id_code |-> 0, linetype |-> DXF_DEFAULT_LINETYPE, layer |-> DXF_DEFAULT_LAYER,
     elevation |-> 0, thickness |-> 0,
     linetype_scale |-> DXF_DEFAULT_LINETYPE_SCALE,
     visibility |-> DXF_DEFAULT_VISIBILITY, constant_width |-> 0,
     color |-> DXF_COLOR_BYLAYER, paperspace |-> DXF_MODELSPACE,
     flag |-> 0, number_vertices |-> 0,
     extr_x0 |-> 0, extr_y0 |-> 0, extr_z0 |-> 0,
     dictionary_owner_soft |-> EMPTY, dictionary_owner_hard |-> EMPTY,
     vertices |-> <<dxf_vertex_new>>]

lwpolyline_branches ==
    << Scan(5, "x", "id_code"), Str(6, "linetype"), Str(8, "layer"),
       VScan(10, "x0", FALSE), VScan(20, "y0", FALSE),
       ScanIf("le11_elev_ne0", 38, "lf", "elevation"),
       Scan(39, "lf", "thickness"),
       VScan(40, "start_width", FALSE), VScan(41, "end_width", FALSE),
       VScan(42, "bulge", TRUE),
       Scan(43, "lf", "constant_width"), Scan(48, "lf", "linetype_scale"),
       Scan(60, "hd", "visibility"), Scan(62, "d", "color"),
       Scan(67, "d", "paperspace"), Scan(70, "d", "flag"),
       Scan(90, "d", "number_vertices"),
       MarkerUnchecked("ge12"),
       Scan(210, "lf", "extr_x0"), Scan(220, "lf", "extr_y0"),
       Scan(230, "lf", "extr_z0"),
       Str(330, "dictionary_owner_soft"), Str(360, "dictionary_owner_hard"),
       Comment >>

RECURSIVE Concat(_)
\* The concatenation of a sequence of sequences.
Concat(ss) == IF ss = <<>> THEN <<>> ELSE ss[1] \o Concat(Tail(ss))

\* The lines printed for one vertex.
VertexLines(v, constant_width) ==
    Pair(10, FmtF(v.x0)) \o Pair(20, FmtF(v.y0))
    \o Opt(v.start_width # constant_width \/ v.end_width # constant_width,
           Pair(40, FmtF(v.start_width)) \o Pair(41, FmtF(v.end_width)))
    \o Pair(42, FmtF(v.bulge))

dxf_lwpolyline_write(fpnull, ver, flat, dxf_lwpolyline) ==
    IF fpnull THEN WriteFails(dxf_lwpolyline, "null_fp")
    ELSE IF dxf_lwpolyline = NULL THEN WriteFails(dxf_lwpolyline, "null_entity")
    ELSE
    LET p1 == IF dxf_lwpolyline.linetype = EMPTY
              THEN [dxf_lwpolyline EXCEPT !.linetype = DXF_DEFAULT_LINETYPE]
              ELSE dxf_lwpolyline
        p == IF p1.layer = EMPTY THEN [p1 EXCEPT !.layer = DXF_DEFAULT_LAYER] ELSE p1
        msgs == Opt(dxf_lwpolyline.linetype = EMPTY, <<"empty_linetype">>)
                \o Opt(p1.layer = EMPTY, <<"empty_layer">>)
    IN  WriteDone(p,
          Pair(0, S("LWPOLYLINE"))
          \o Opt(p.id_code # -1, Pair(5, FmtX(p.id_code)))
          \o OwnerGroups(ver, p)
          \o Opt(ver >= AutoCAD_13, Pair(100, S("AcDbEntity")))
          \o Opt(p.paperspace = DXF_PAPERSPACE, Pair(67, FmtD(DXF_PAPERSPACE)))
          \o Pair(8, FmtS(p.layer))
          \o Opt(p.linetype # DXF_DEFAULT_LINETYPE, Pair(6, FmtS(p.linetype)))
          \o Opt(p.color # DXF_COLOR_BYLAYER, Pair(62, FmtD(p.color)))
          \o Opt(p.linetype_scale # Real(1), Pair(48, FmtF(p.linetype_scale)))
          \o Opt(p.visibility # 0, Pair(60, FmtD(p.visibility)))
          \o Opt(ver >= AutoCAD_13, Pair(100, S("AcDbPolyline")))
          \o Pair(90, FmtD(p.number_vertices))
          \o Pair(70, FmtD(p.flag))
          \o Pair(43, FmtF(p.constant_width))
          \o Opt(p.elevation # 0, Pair(38, FmtF(p.elevation)))
          \o Opt(p.thickness # 0, Pair(39, FmtF(p.thickness)))
          \o Concat([i \in 1..Len(p.vertices) |->
                       VertexLines(p.vertices[i], p.constant_width)])
          \o Opt(ver >= AutoCAD_12,
                 Pair(210, FmtF(p.extr_x0)) \o Pair(220, FmtF(p.extr_y0))
                   \o Pair(230, FmtF(p.extr_z0))),
          msgs)

---------------------------------------------------------------------------
(* SPLINE  (spline.c) *)

dxf_spline_init ==
    [id_code |-> 0, linetype |-> DXF_DEFAULT_LINETYPE, layer |-> DXF_DEFAULT_LAYER,
     elevation |-> 0, thickness |-> 0, linetype_scale |-> Real(1),
     visibility |-> 0, color |-> DXF_COLOR_BYLAYER, paperspace |-> DXF_MODELSPACE,
     graphics_data_size |-> 0, shadow_mode |-> 0,
     dictionary_owner_soft |-> EMPTY, material |-> EMPTY,
     dictionary_owner_hard |-> EMPTY, lineweight |-> 0,
     plot_style_name |-> EMPTY, color_value |-> 0, color_name |-> EMPTY,
     transparency |-> 0,
     binary_graphics_data |-> <<>>,
     x0 |-> <<>>, y0 |-> <<>>, z0 |-> <<>>, x1 |-> <<>>, y1 |-> <<>>, z1 |-> <<>>,
     knot_value |-> <<>>, weight_value |-> <<>>,
     x2 |-> 0, y2 |-> 0, z2 |-> 0, x3 |-> 0, y3 |-> 0, z3 |-> 0,
     extr_x0 |-> 0, extr_y0 |-> 0, extr_z0 |-> 0,
     knot_tolerance |-> 0, control_point_tolerance |-> 0, fit_tolerance |-> 0,
     flag |-> 0, degree |-> 0, number_of_knots |-> 0,
     number_of_control_points |-> 0, number_of_fit_points |-> 0]

spline_branches ==
    << Scan(5, "x", "id_code"), Str(6, "linetype"), Str(8, "layer"),
       AScan(10, "x0", "i_x0"), AScan(20, "y0", "i_y0"), AScan(30, "z0", "i_z0"),
       AScan(11, "x1", "i_x1"), AScan(21, "y1", "i_y1"), AScan(31, "z1", "i_z1"),
       Scan(12, "lf", "x2"), Scan(22, "lf", "y2"), Scan(32, "lf", "z2"),
       Scan(13, "lf", "x3"), Scan(23, "lf", "y3"), Scan(33, "lf", "z3"),
       ScanIf("le11_elev_ne0", 38, "lf", "elevation"),
       ScanBump(39, "lf", "thickness", "i_knot_value"),
       AScan(40, "knot_value", "i_knot_value"),
       AScan(41, "weight_value", "i_weight_value"),
       Scan(42, "lf", "knot_tolerance"),
       Scan(43, "lf", "control_point_tolerance"),
       Scan(44, "lf", "fit_tolerance"),
       ScanBump(48, "lf", "linetype_scale", "i_knot_value"),
       Scan(60, "hd", "visibility"), Scan(62, "d", "color"),
       Scan(67, "d", "paperspace"), Scan(70, "d", "flag"),
       Scan(71, "d", "degree"), Scan(72, "d", "number_of_knots"),
       Scan(73, "d", "number_of_control_points"),
       Scan(74, "d", "number_of_fit_points"),
       Scan(92, "d", "graphics_data_size"), Scan(284, "hd", "shadow_mode"),
       AStr(310, "binary_graphics_data", "i_graphics_data_size"),
       Str(330, "dictionary_owner_soft"), Str(347, "material"),
       Str(360, "dictionary_owner_hard"), Scan(370, "hd", "lineweight"),
       Str(390, "plot_style_name"), Scan(420, "d", "color_value"),
       Str(430, "color_name"), Scan(440, "d", "transparency"),
       Comment >>

RECURSIVE NonEmptyPrefix(_)
\* The elements of an array of strings before its first empty string.
NonEmptyPrefix(a) ==
    IF a = <<>> \/ a[1] = EMPTY THEN <<>> ELSE <<a[1]>> \o NonEmptyPrefix(Tail(a))

dxf_spline_write(fpnull, ver, flat, dxf_spline) ==
    IF fpnull THEN WriteFails(dxf_spline, "null_fp")
    ELSE IF ver < AutoCAD_13 THEN WriteFails(dxf_spline, "illegal_version")
    ELSE IF dxf_spline = NULL THEN WriteFails(dxf_spline, "null_entity")
    ELSE
    LET s1 == IF dxf_spline.linetype = EMPTY
              THEN [dxf_spline EXCEPT !.linetype = DXF_DEFAULT_LINETYPE]
              ELSE dxf_spline
        s == IF s1.layer = EMPTY THEN [s1 EXCEPT !.layer = DXF_DEFAULT_LAYER] ELSE s1
        msgs == Opt(dxf_spline.linetype = EMPTY, <<"empty_linetype">>)
                \o Opt(s1.layer = EMPTY, <<"empty_layer">>)
    IN  WriteDone(s,
          Pair(0, S("SPLINE"))
          \o Opt(s.id_code # -1, Pair(5, FmtX(s.id_code)))
          \o OwnerGroups(ver, s)
          \o Opt(ver >= AutoCAD_13, Pair(100, S("AcDbEntity")))
          \o Opt(s.paperspace # DXF_MODELSPACE, Pair(67, FmtD(DXF_PAPERSPACE)))
          \o Pair(8, FmtS(s.layer))
          \o Opt(s.linetype # DXF_DEFAULT_LINETYPE, Pair(6, FmtS(s.linetype)))
          \o Opt(ver <= AutoCAD_11 /\ flat # 0 /\ s.elevation # 0,
                 Pair(38, FmtF(s.elevation)))
          \o Opt(ver >= AutoCAD_2007 /\ s.material # EMPTY,
                 Pair(347, FmtS(s.material)))
          \o Opt(s.color # DXF_COLOR_BYLAYER, Pair(62, FmtD(s.color)))
          \o Opt(s.thickness # 0, Pair(39, FmtF(s.thickness)))
          \o Pair(370, FmtD(s.lineweight))
          \o Pair(48, FmtF(s.linetype_scale))
          \o Opt(s.visibility # 0, Pair(60, FmtD(s.visibility)))
          \o Pair(92, FmtD(s.graphics_data_size))
          \o Concat([i \in 1..Len(NonEmptyPrefix(s.binary_graphics_data)) |->
                       Pair(310, FmtS(s.binary_graphics_data[i]))])
          \o Pair(420, FmtD(s.color_value))
          \o Pair(430, FmtS(s.color_name))
          \o Pair(440, FmtD(s.transparency))
          \o Pair(390, FmtS(s.plot_style_name))
          \o Pair(284, FmtD(s.shadow_mode))
          \o Pair(100, S("AcDbSpline"))
          \o Opt(ver >= AutoCAD_12 /\ s.extr_x0 # 0 /\ s.extr_y0 # 0
                   /\ s.extr_z0 # Real(1),
                 Pair(210, FmtF(s.extr_x0)) \o Pair(220, FmtF(s.extr_y0))
                   \o Pair(230, FmtF(s.extr_z0)))
          \o Pair(70, FmtD(s.flag)) \o Pair(71, FmtD(s.degree))
          \o Pair(72, FmtD(s.number_of_knots))
          \o Pair(73, FmtD(s.number_of_control_points))
          \o Pair(74, FmtD(s.number_of_fit_points))
          \o Pair(42, FmtF(s.knot_tolerance))
          \o Pair(43, FmtF(s.control_point_tolerance))
          \o Pair(12, FmtF(s.x2)) \o Pair(22, FmtF(s.y2)) \o Pair(32, FmtF(s.z2))
          \o Pair(13, FmtF(s.x3)) \o Pair(23, FmtF(s.y3)) \o Pair(33, FmtF(s.z3))
          \o Concat([i \in 1..s.number_of_knots |->
                       Pair(40, FmtF(AGet(s.knot_value, i - 1, 0)))])
          \o Concat([i \in 1..s.number_of_fit_points |->
                       Pair(41, FmtF(AGet(s.weight_value, i - 1, 0)))])
          \o Concat([i \in 1..s.number_of_control_points |->
                       Pair(10, FmtF(AGet(s.x0, i - 1, 0)))
                       \o Pair(20, FmtF(AGet(s.y0, i - 1, 0)))
                       \o Pair(30, FmtF(AGet(s.z0, i - 1, 0)))])
          \o Concat([i \in 1..s.number_of_fit_points |->
                       Pair(11, FmtF(AGet(s.x1, i - 1, 0)))
                       \o Pair(21, FmtF(AGet(s.y1, i - 1, 0)))
                       \o Pair(31, FmtF(AGet(s.z1, i - 1, 0)))]),
          msgs)

---------------------------------------------------------------------------
(* HELIX  (helix.c) *)

dxf_helix_init ==
    [id_code |-> 0, linetype |-> DXF_DEFAULT_LINETYPE, layer |-> DXF_DEFAULT_LAYER,
     x0 |-> 0, y0 |-> 0, z0 |-> 0, x1 |-> 0, y1 |-> 0, z1 |-> 0,
     x2 |-> 0, y2 |-> 0, z2 |-> 0,
     thickness |-> 0, radius |-> 0, number_of_turns |-> 0, turn_height |-> 0,
     linetype_scale |-> 0, visibility |-> 0,
     color |-> DXF_COLOR_BYLAYER, paperspace |-> DXF_MODELSPACE,
     major_release_number |-> 0, maintainance_release_number |-> 0,
     graphics_data_size |-> 0, constraint_type |-> 0, shadow_mode |-> 0,
     handedness |-> 0, binary_graphics_data |-> <<>>,
     dictionary_owner_hard |-> EMPTY, material |-> EMPTY,
     dictionary_owner_soft |-> EMPTY, lineweight |-> 0,
     plot_style_name |-> EMPTY, color_value |-> 0, color_name |-> EMPTY,
     transparency |-> 0,
     spline |-> dxf_spline_init]

helix_branches ==
    << Scan(5, "x", "id_code"), Str(6, "linetype"), Str(8, "layer"),
       Scan(10, "lf", "x0"), Scan(20, "lf", "y0"), Scan(30, "lf", "z0"),
       Scan(11, "lf", "x1"), Scan(21, "lf", "y1"), Scan(31, "lf", "z1"),
       Scan(12, "lf", "x2"), Scan(22, "lf", "y2"), Scan(32, "lf", "z2"),
       Scan(39, "lf", "thickness"), Scan(40, "lf", "radius"),
       Scan(41, "lf", "number_of_turns"), Scan(42, "lf", "turn_height"),
       Scan(48, "lf", "linetype_scale"), Scan(60, "hd", "visibility"),
       Scan(62, "d", "color"), Scan(67, "d", "paperspace"),
       Scan(90, "d", "major_release_number"),
       Scan(91, "d", "maintainance_release_number"),
       Scan(92, "d", "graphics_data_size"),
       MarkerNest("any", {S("AcDbEntity"), S("AcDbHelix")}, S("AcDbSpline")),
       Scan(160, "d", "graphics_data_size"), Scan(280, "d", "constraint_type"),
       Scan(284, "hd", "shadow_mode"), Scan(290, "d", "handedness"),
       AStr(310, "binary_graphics_data", "i"),
       Str(330, "dictionary_owner_soft"), Str(347, "material"),
       Str(360, "dictionary_owner_hard"), Scan(370, "hd", "lineweight"),
       Str(390, "plot_style_name"), Scan(420, "d", "color_value"),
       Str(430, "color_name"), Scan(440, "d", "transparency"),
       Comment >>

\* The chain of the loop nested in the code 100 branch; its members are
\* those of dxf_helix->spline.
helix_spline_branches ==
    << Str(6, "linetype"), Str(8, "layer"),
       AScan(10, "x0", "i_x0"), AScan(20, "y0", "i_y0"), AScan(30, "z0", "i_z0"),
       AScan(40, "knot_value", "i_knot_value"),
       AScan(41, "weight_value", "i_weight_value"),
       ScanBump(42, "lf", "knot_tolerance", "i_knot_value"),
       Scan(43, "lf", "control_point_tolerance"),
       Scan(44, "lf", "fit_tolerance"),
       Comment >>

\* The writer lays a fresh spline over the one the entity holds
\* (dxf_spline_init on the embedded member) before it prints it.
\* What dxf_helix_write does once its tests of the arguments have passed.
dxf_helix_print(ver, flat, dxf_helix) ==
    LET h1 == IF dxf_helix.linetype = EMPTY
              THEN [dxf_helix EXCEPT !.linetype = DXF_DEFAULT_LINETYPE]
              ELSE dxf_helix
        h2 == IF h1.layer = EMPTY THEN [h1 EXCEPT !.layer = DXF_DEFAULT_LAYER] ELSE h1
        h == [h2 EXCEPT !.spline = [dxf_spline_init EXCEPT !.flag = 0, !.degree = 3]]
        s == h.spline
        msgs == Opt(dxf_helix.linetype = EMPTY, <<"empty_linetype">>)
                \o Opt(h1.layer = EMPTY, <<"empty_layer">>)
    IN  WriteDone(h,
          Pair(0, S("HELIX"))
          \o Opt(h.id_code # -1, Pair(5, FmtX(h.id_code)))
          \o Pair(330, FmtS(h.dictionary_owner_soft))
          \o Pair(100, S("AcDbEntity"))
          \o Opt(h.paperspace # DXF_MODELSPACE, Pair(67, FmtD(DXF_PAPERSPACE)))
          \o Pair(8, FmtS(h.layer))
          \o Opt(h.linetype # DXF_DEFAULT_LINETYPE, Pair(6, FmtS(h.linetype)))
          \o Opt(h.material # EMPTY, Pair(347, FmtS(h.material)))
          \o Opt(h.color # DXF_COLOR_BYLAYER, Pair(62, FmtD(h.color)))
          \o Opt(h.thickness # 0, Pair(39, FmtF(h.thickness)))
          \o Pair(48, FmtF(h.linetype_scale))
          \o Opt(h.visibility # 0, Pair(60, FmtD(h.visibility)))
          \o Pair(92, FmtD(h.graphics_data_size))
          \o Concat([i \in 1..Len(NonEmptyPrefix(h.binary_graphics_data)) |->
                       Pair(310, FmtS(h.binary_graphics_data[i]))])
          \o Pair(370, FmtD(h.lineweight))
          \o Pair(420, FmtD(h.color_value))
          \o Pair(430, FmtS(h.color_name))
          \o Pair(440, FmtD(h.transparency))
          \o Pair(390, FmtS(h.plot_style_name))
          \o Pair(284, FmtD(h.shadow_mode))
          \o Pair(100, S("AcDbSpline"))
          \o Pair(70, FmtD(s.flag)) \o Pair(71, FmtD(s.degree))
          \o Pair(72, FmtD(s.number_of_knots))
          \o Pair(73, FmtD(s.number_of_control_points))
          \o Pair(74, FmtD(s.number_of_fit_points))
          \o Pair(42, FmtF(s.knot_tolerance))
          \o Pair(43, FmtF(s.control_point_tolerance))
          \o Pair(12, FmtF(s.x2)) \o Pair(22, FmtF(s.y2)) \o Pair(32, FmtF(s.z2))
          \o Pair(13, FmtF(s.x3)) \o Pair(23, FmtF(s.y3)) \o Pair(33, FmtF(s.z3))
          \o Concat([i \in 1..s.number_of_knots |->
                       Pair(40, FmtF(AGet(s.knot_value, i - 1, 0)))])
          \o Concat([i \in 1..s.number_of_fit_points |->
                       Pair(41, FmtF(AGet(s.weight_value, i - 1, 0)))])
          \o Concat([i \in 1..s.number_of_control_points |->
                       Pair(10, FmtF(AGet(s.x0, i - 1, 0)))
                       \o Pair(20, FmtF(AGet(s.y0, i - 1, 0)))
                       \o Pair(30, FmtF(AGet(s.z0, i - 1, 0)))])
          \o Concat([i \in 1..s.number_of_fit_points |->
                       Pair(11, FmtF(AGet(s.x1, i - 1, 0)))
                       \o Pair(21, FmtF(AGet(s.y1, i - 1, 0)))
                       \o Pair(31, FmtF(AGet(s.z1, i - 1, 0)))])
          \o Pair(100, S("AcDbHelix"))
          \o Pair(90, FmtD(h.major_release_number))
          \o Pair(91, FmtD(h.maintainance_release_number))
          \o Pair(10, FmtF(h.x0)) \o Pair(20, FmtF(h.y0)) \o Pair(30, FmtF(h.z0))
          \o Pair(11, FmtF(h.x1)) \o Pair(21, FmtF(h.y1)) \o Pair(31, FmtF(h.z1))
          \o Pair(12, FmtF(h.x2)) \o Pair(22, FmtF(h.y2)) \o Pair(32, FmtF(h.z2))
          \o Pair(40, FmtF(h.radius))
          \o Pair(41, FmtF(h.number_of_turns))
          \o Pair(42, FmtF(h.turn_height))
          \o Pair(290, FmtD(h.handedness))
          \o Pair(280, FmtD(h.constraint_type)),
          msgs)

\* dxf_helix_write without its test for a radius of zero.
dxf_helix_write_unchecked(fpnull, ver, flat, dxf_helix) ==
    IF fpnull THEN WriteFails(dxf_helix, "null_fp")
    ELSE IF ver < AutoCAD_2007 THEN WriteFails(dxf_helix, "illegal_version")
    ELSE IF dxf_helix = NULL THEN WriteFails(dxf_helix, "null_entity")
    ELSE dxf_helix_print(ver, flat, dxf_helix)

dxf_helix_write(fpnull, ver, flat, dxf_helix) ==
    IF fpnull THEN WriteFails(dxf_helix, "null_fp")
    ELSE IF ver < AutoCAD_2007 THEN WriteFails(dxf_helix, "illegal_version")
    ELSE IF dxf_helix = NULL THEN WriteFails(dxf_helix, "null_entity")
    ELSE IF dxf_helix.radius = 0 THEN WriteFails(dxf_helix, "radius_0")
    ELSE dxf_helix_print(ver, flat, dxf_helix)

---------------------------------------------------------------------------
(* DIMENSION  (dimension.c) *)

dxf_dimension_init ==
    [id_code |-> 0, linetype |-> DXF_DEFAULT_LINETYPE, layer |-> DXF_DEFAULT_LAYER,
     elevation |-> 0, thickness |-> 0,
     linetype_scale |-> DXF_DEFAULT_LINETYPE_SCALE,
     visibility |-> DXF_DEFAULT_VISIBILITY,
     color |-> DXF_COLOR_BYLAYER, paperspace |-> DXF_PAPERSPACE,
     dim_text |-> EMPTY, dimblock_name |-> EMPTY, dimstyle_name |-> EMPTY,
     x0 |-> 0, y0 |-> 0, z0 |-> 0, x1 |-> 0, y1 |-> 0, z1 |-> 0,
     x2 |-> 0, y2 |-> 0, z2 |-> 0, x3 |-> 0, y3 |-> 0, z3 |-> 0,
     x4 |-> 0, y4 |-> 0, z4 |-> 0, x5 |-> 0, y5 |-> 0, z5 |-> 0,
     x6 |-> 0, y6 |-> 0, z6 |-> 0,
     leader_length |-> 0, text_line_spacing_factor |-> 0,
     actual_measurement |-> 0, angle |-> 0, hor_dir |-> 0, obl_angle |-> 0,
     text_angle |-> 0, flag |-> 0, attachment_point |-> 0,
     text_line_spacing |-> 0,
     extr_x0 |-> 0, extr_y0 |-> 0, extr_z0 |-> 0,
     dictionary_owner_soft |-> EMPTY, dictionary_owner_hard |-> EMPTY]

dimension_branches ==
    << StrAlso(1, "dim_text"), StrAlso(2, "dimblock_name"),
       StrAlso(3, "dimstyle_name"),
       Scan(5, "x", "id_code"), Str(6, "linetype"), Str(8, "layer"),
       Scan(10, "lf", "x0"), Scan(20, "lf", "y0"), Scan(30, "lf", "z0"),
       Scan(11, "lf", "x1"), Scan(21, "lf", "y1"), Scan(31, "lf", "z1"),
       Scan(12, "lf", "x2"), Scan(22, "lf", "y2"), Scan(32, "lf", "z2"),
       Scan(13, "lf", "x3"), Scan(23, "lf", "y3"), Scan(33, "lf", "z3"),
       Scan(14, "lf", "x4"), Scan(24, "lf", "y4"), Scan(34, "lf", "z4"),
       Scan(15, "lf", "x5"), Scan(25, "lf", "y5"), Scan(35, "lf", "z5"),
       Scan(16, "lf", "x6"), Scan(26, "lf", "y6"), Scan(36, "lf", "z5"),
       ScanIf("le11_elev_assign", 38, "lf", "elevation"),
       Scan(39, "lf", "thickness"), Scan(40, "lf", "leader_length"),
       Scan(41, "lf", "text_line_spacing_factor"),
       Scan(42, "lf", "actual_measurement"),
       Scan(48, "lf", "linetype_scale"),
       Scan(50, "lf", "angle"), Scan(51, "lf", "hor_dir"),
       Scan(52, "lf", "obl_angle"), Scan(53, "lf", "text_angle"),
       Scan(60, "hd", "visibility"), Scan(62, "d", "color"),
       Scan(67, "d", "paperspace"), Scan(70, "d", "flag"),
       Scan(71, "d", "attachment_point"), Scan(72, "d", "text_line_spacing"),
       Marker("ge13", {S("AcDbEntity"), S("AcDbDimension"),
                       S("AcDbAlignedDimension"), S("AcDbRotatedDimension"),
                       S("AcDb3PointAngularDimension"),
                       S("AcDbDiametricDimension"), S("AcDbRadialDimension"),
                       S("AcDbOrdinateDimension")}),
       Scan(210, "lf", "extr_x0"), Scan(220, "lf", "extr_y0"),
       Scan(230, "lf", "extr_z0"),
       Str(330, "dictionary_owner_soft"), Str(360, "dictionary_owner_hard"),
       Comment >>

\* "%fn" (for "%f\n"): the number, the letter n, and whatever is printed
\* next on the same line (c = -1: white space).
FmtFn(v, c) == FN((v + 1) \div 2, c)

P3(c, x, y, z) == Pair(c, FmtF(x)) \o Pair(c + 10, FmtF(y)) \o Pair(c + 20, FmtF(z))

dxf_dimension_write(fpnull, ver, flat, dxf_dimension) ==
    IF fpnull THEN WriteFails(dxf_dimension, "null_fp")
    ELSE IF dxf_dimension = NULL
    THEN [ret |-> EXIT_FAILURE, ent |-> dxf_dimension, out |-> <<>>, diag |-> <<>>]
    ELSE
    LET d == IF dxf_dimension.layer = EMPTY
             THEN [dxf_dimension EXCEPT !.layer = DXF_DEFAULT_LAYER]
             ELSE dxf_dimension
        msgs == Opt(dxf_dimension.layer = EMPTY, <<"empty_layer">>)
        sub(name) == Opt(ver >= AutoCAD_13, Pair(100, S(name)))
    IN  WriteDone(d,
          Pair(0, S("DIMENSION"))
          \o Opt(d.id_code # -1, Pair(5, FmtX(d.id_code)))
          \o OwnerGroups(ver, d)
          \o sub("AcDbEntity")
          \o Opt(d.paperspace = DXF_PAPERSPACE, Pair(67, FmtD(DXF_PAPERSPACE)))
          \o Pair(8, FmtS(d.layer))
          \o Opt(d.linetype # DXF_DEFAULT_LINETYPE, Pair(6, FmtS(d.linetype)))
          \o Opt(d.color # DXF_COLOR_BYLAYER, Pair(62, FmtD(d.color)))
          \o Opt(d.linetype_scale # Real(1), Pair(48, FmtF(d.linetype_scale)))
          \o Opt(d.visibility # 0, Pair(60, FmtD(d.visibility)))
          \o sub("AcDbDimension")
          \o Pair(2, FmtS(d.dimblock_name))
          \o P3(10, d.x0, d.y0, d.z0) \o P3(11, d.x1, d.y1, d.z1)
          \o Pair(70, FmtD(d.flag))
          \o Opt(ver >= AutoCAD_2000,
                 Pair(71, FmtD(d.attachment_point))
                 \o Pair(72, FmtD(d.text_line_spacing))
                 \o Pair(41, FmtF(d.text_line_spacing_factor))
                 \o Pair(42, FmtF(d.actual_measurement)))
          \o Pair(1, FmtS(d.dim_text))
          \o Pair(53, FmtF(d.text_angle)) \o Pair(51, FmtF(d.hor_dir))
          \o <<D(210), FmtFn(d.extr_x0, 220), FmtFn(d.extr_y0, 230),
               FmtFn(d.extr_z0, -1)>>
          \o Pair(3, FmtS(d.dimstyle_name))
          \o Opt(d.flag = 0,
                 sub("AcDbAlignedDimension")
                 \o P3(12, d.x2, d.y2, d.z2) \o P3(13, d.x3, d.y3, d.z3)
                 \o P3(14, d.x4, d.y4, d.z4)
                 \o Pair(50, FmtF(d.angle)) \o Pair(52, FmtF(d.obl_angle))
                 \o sub("AcDbRotatedDimension"))
          \o Opt(d.flag = 1,
                 sub("AcDbAlignedDimension")
                 \o P3(12, d.x2, d.y2, d.z2) \o P3(13, d.x3, d.y3, d.z3)
                 \o P3(14, d.x4, d.y4, d.z4)
                 \o Pair(50, FmtF(d.angle)))
          \o Opt(d.flag = 2 \/ d.flag = 5,
                 sub("AcDb3PointAngularDimension")
                 \o P3(13, d.x3, d.y3, d.z3) \o P3(14, d.x4, d.y4, d.z4)
                 \o P3(15, d.x5, d.y5, d.z5) \o P3(16, d.x6, d.y6, d.z6))
          \o Opt(d.flag = 3,
                 sub("AcDbDiametricDimension")
                 \o P3(15, d.x5, d.y5, d.z5) \o Pair(40, FmtF(d.leader_length)))
          \o Opt(d.flag = 4,
                 sub("AcDbRadialDimension")
                 \o P3(15, d.x5, d.y5, d.z5) \o Pair(40, FmtF(d.leader_length)))
          \o Opt(d.flag = 6,
                 sub("AcDbOrdinateDimension")
                 \o P3(13, d.x3, d.y3, d.z3) \o P3(14, d.x4, d.y4, d.z4))
          \o Opt(d.thickness # 0, Pair(39, FmtF(d.thickness))),
          msgs)

---------------------------------------------------------------------------
(* MTEXT  (mtext.c) *)

dxf_mtext_init ==
    [id_code |-> 0, text_value |-> EMPTY, linetype |-> DXF_DEFAULT_LINETYPE,
     text_style |-> EMPTY, layer |-> DXF_DEFAULT_LAYER,
     x0 |-> 0, y0 |-> 0, z0 |-> 0, x1 |-> 0, y1 |-> 0, z1 |-> 0,
     height |-> 0, rectangle_width |-> 0, horizontal_width |-> 0,
     rectangle_height |-> 0, spacing_factor |-> 0, box_scale |-> 0,
     column_width |-> 0, column_gutter |-> 0, column_heights |-> 0,
     rot_angle |-> 0, color |-> DXF_COLOR_BYLAYER, background_color |-> 0,
     paperspace |-> DXF_MODELSPACE, attachment_point |-> 0,
     drawing_direction |-> 0, spacing_style |-> 0, column_type |-> 0,
     column_count |-> 0, column_flow |-> 0, column_autoheight |-> 0,
     background_fill |-> 0, extr_x0 |-> 0, extr_y0 |-> 0, extr_z0 |-> 0,
     background_color_rgb |-> 0, background_color_name |-> EMPTY,
     background_transparency |-> 0]

mtext_branches ==
    << Str(1, "text_value"), Skip("any", 3),
       Scan(5, "x", "id_code"), Str(6, "linetype"), Str(7, "text_style"),
       Str(8, "layer"),
       Scan(10, "lf", "x0"), Scan(20, "lf", "y0"), Scan(30, "lf", "z0"),
       Scan(40, "lf", "height"), Scan(41, "lf", "rectangle_width"),
       Scan(42, "lf", "horizontal_width"), Scan(43, "lf", "rectangle_height"),
       Scan(44, "lf", "spacing_factor"), Scan(45, "lf", "box_scale"),
       Scan(48, "lf", "column_width"), Scan(49, "lf", "column_gutter"),
       ScanIf("le2006", 50, "lf", "rot_angle"), Skip("ge2007", 50),
       Scan(63, "d", "background_color"), Scan(71, "d", "attachment_point"),
       Scan(72, "d", "drawing_direction"), Scan(73, "d", "spacing_style"),
       Scan(75, "d", "column_type"), Scan(76, "d", "column_count"),
       Scan(78, "d", "column_flow"), Scan(79, "d", "column_autoheight"),
       Scan(90, "d", "background_fill"),
       Marker("ge13", {S("AcDbEntity"), S("AcDbMText")}),
       Scan(210, "lf", "extr_x0"), Scan(220, "lf", "extr_y0"),
       Scan(230, "lf", "extr_z0"),
       Comment >>

---------------------------------------------------------------------------
(* BLOCK  (block.c) *)

\* extr_x0, extr_y0 and extr_z0 are left as dxf_block_new's memset made
\* them.
dxf_block_init ==
    [xref_name |-> EMPTY, block_name |-> EMPTY, block_name_additional |-> EMPTY,
     id_code |-> 0, description |-> EMPTY, layer |-> DXF_DEFAULT_LAYER,
     x0 |-> 0, y0 |-> 0, z0 |-> 0, block_type |-> 0,
     dictionary_owner_soft |-> EMPTY,
     extr_x0 |-> 0, extr_y0 |-> 0, extr_z0 |-> 0]

block_branches ==
    << Str(1, "xref_name"), Str(2, "block_name"),
       Str(3, "block_name_additional"), Str(4, "description"),
       Scan(5, "x", "id_code"), Str(8, "layer"),
       Scan(10, "lf", "x0"), Scan(20, "lf", "y0"), Scan(30, "lf", "z0"),
       ScanIf("le11_z0_assign", 38, "lf", "z0"),
       Scan(70, "d", "block_type"),
       Marker("ge13", {S("AcDbEntity"), S("AcDbBlockBegin")}),
       Scan(210, "lf", "extr_x0"), Scan(220, "lf", "extr_y0"),
       Scan(230, "lf", "extr_z0"),
       Str(330, "dictionary_owner_soft"),
       Comment >>

---------------------------------------------------------------------------
(* LINE  (line.c) *)

dxf_line_init ==
    [id_code |-> 0, linetype |-> DXF_DEFAULT_LINETYPE, layer |-> DXF_DEFAULT_LAYER,
     x0 |-> 0, y0 |-> 0, z0 |-> 0, x1 |-> 0, y1 |-> 0, z1 |-> 0,
     extr_x0 |-> 0, extr_y0 |-> 0, extr_z0 |-> 0,
     elevation |-> 0, thickness |-> 0,
     linetype_scale |-> DXF_DEFAULT_LINETYPE_SCALE,
     visibility |-> DXF_DEFAULT_VISIBILITY,
     color |-> DXF_COLOR_BYLAYER, paperspace |-> DXF_MODELSPACE,
     dictionary_owner_soft |-> EMPTY, dictionary_owner_hard |-> EMPTY]

line_branches ==
    << Scan(5, "x", "id_code"), Str(6, "linetype"), Str(8, "layer"),
       Scan(10, "lf", "x0"), Scan(20, "lf", "y0"), Scan(30, "lf", "z0"),
       Scan(11, "lf", "x1"), Scan(21, "lf", "y1"), Scan(31, "lf", "z1"),
       ScanIf("le11_elev_ne0", 38, "lf", "elevation"),
       Scan(39, "lf", "thickness"), Scan(48, "lf", "linetype_scale"),
       Scan(60, "hd", "visibility"), Scan(62, "d", "color"),
       Scan(67, "d", "paperspace"),
       Marker("ge13", {S("AcDbEntity"), S("AcDbLine")}),
       Scan(210, "lf", "extr_x0"), Scan(220, "lf", "extr_y0"),
       Scan(230, "lf", "extr_z0"),
       Str(330, "dictionary_owner_soft"), Str(360, "dictionary_owner_hard"),
       Comment >>

\* What dxf_line_write does once its tests of the arguments have passed.
dxf_line_print(ver, flat, dxf_line) ==
    LET l == IF dxf_line.layer = EMPTY
             THEN [dxf_line EXCEPT !.layer = DXF_DEFAULT_LAYER] ELSE dxf_line
        msgs == Opt(dxf_line.layer = EMPTY, <<"empty_layer">>)
    IN  WriteDone(l,
          Pair(0, S("LINE"))
          \o Opt(l.id_code # -1, Pair(5, FmtX(l.id_code)))
          \o OwnerGroups(ver, l)
          \o Opt(ver >= AutoCAD_13, Pair(100, S("AcDbEntity")))
          \o Opt(l.paperspace = DXF_PAPERSPACE, Pair(67, FmtD(DXF_PAPERSPACE)))
          \o Pair(8, FmtS(l.layer))
          \o Opt(l.linetype # DXF_DEFAULT_LINETYPE, Pair(6, FmtS(l.linetype)))
          \o Opt(ver <= AutoCAD_11 /\ flat # 0 /\ l.elevation # 0,
                 Pair(38, FmtF(l.elevation)))
          \o Opt(l.color # DXF_COLOR_BYLAYER, Pair(62, FmtD(l.color)))
          \o Opt(l.linetype_scale # Real(1), Pair(48, FmtF(l.linetype_scale)))
          \o Opt(l.visibility # 0, Pair(60, FmtD(l.visibility)))
          \o Opt(ver >= AutoCAD_13, Pair(100, S("AcDbLine")))
          \o Opt(l.thickness # 0, Pair(39, FmtF(l.thickness)))
          \o Pair(10, FmtF(l.x0)) \o Pair(20, FmtF(l.y0)) \o Pair(30, FmtF(l.z0))
          \o Pair(11, FmtF(l.x1)) \o Pair(21, FmtF(l.y1)) \o Pair(31, FmtF(l.z1))
          \o Opt(ver >= AutoCAD_12 /\ l.extr_x0 # 0 /\ l.extr_y0 # 0
                   /\ l.extr_z0 # Real(1),
                 Pair(210, FmtF(l.extr_x0)) \o Pair(220, FmtF(l.extr_y0))
                   \o Pair(230, FmtF(l.extr_z0))),
          msgs)

\* dxf_line_write without its test for a line of zero length.
dxf_line_write_unchecked(fpnull, ver, flat, dxf_line) ==
    IF fpnull THEN WriteFails(dxf_line, "null_fp")
    ELSE IF dxf_line = NULL THEN WriteFails(dxf_line, "null_entity")
    ELSE dxf_line_print(ver, flat, dxf_line)

\* dxf_line_write as it would be if it refused a line without a layer.
dxf_line_write_rejecting(fpnull, ver, flat, dxf_line) ==
    IF fpnull THEN WriteFails(dxf_line, "null_fp")
    ELSE IF dxf_line = NULL THEN WriteFails(dxf_line, "null_entity")
    ELSE IF dxf_line.x0 = dxf_line.x1 /\ dxf_line.y0 = dxf_line.y1
              /\ dxf_line.z0 = dxf_line.z1
    THEN WriteFails(dxf_line, "identical_points")
    ELSE IF dxf_line.layer = EMPTY THEN WriteFails(dxf_line, "empty_layer")
    ELSE dxf_line_print(ver, flat, dxf_line)

dxf_line_write(fpnull, ver, flat, dxf_line) ==
    IF fpnull THEN WriteFails(dxf_line, "null_fp")
    ELSE IF dxf_line = NULL THEN WriteFails(dxf_line, "null_entity")
    ELSE IF dxf_line.x0 = dxf_line.x1 /\ dxf_line.y0 = dxf_line.y1
              /\ dxf_line.z0 = dxf_line.z1
    THEN WriteFails(dxf_line, "identical_points")
    ELSE dxf_line_print(ver, flat, dxf_line)

---------------------------------------------------------------------------
(* INSERT  (insert.c) *)

dxf_insert_init ==
    [block_name |-> EMPTY, id_code |-> 0,
     linetype |-> DXF_DEFAULT_LINETYPE, layer |-> DXF_DEFAULT_LAYER,
     x0 |-> 0, y0 |-> 0, z0 |-> 0, elevation |-> 0, thickness |-> 0,
     linetype_scale |-> DXF_DEFAULT_LINETYPE_SCALE,
     visibility |-> DXF_DEFAULT_VISIBILITY,
     rel_x_scale |-> Real(1), rel_y_scale |-> Real(1), rel_z_scale |-> Real(1),
     column_spacing |-> 0, row_spacing |-> 0, rot_angle |-> 0,
     color |-> DXF_COLOR_BYLAYER, paperspace |-> DXF_MODELSPACE,
     attributes_follow |-> 0, columns |-> 0, rows |-> 0,
     extr_x0 |-> 0, extr_y0 |-> 0, extr_z0 |-> 0,
     dictionary_owner_soft |-> EMPTY, dictionary_owner_hard |-> EMPTY]

\* The entity e with its member fld set to d where it holds bad: what a
\* writer does with a member it finds empty or zero.
Defaulted(e, fld, bad, d) == IF e[fld] = bad THEN [e EXCEPT ![fld] = d] ELSE e

\* The entity e with its count n (columns, rows) set to 1 where it is more
\* than 1 without a spacing.
Unspaced(e, n, spacing) ==
    IF e[n] > 1 /\ e[spacing] = 0 THEN [e EXCEPT ![n] = 1] ELSE e

dxf_insert_write(fpnull, ver, flat, dxf_insert) ==
    IF fpnull THEN WriteFails(dxf_insert, "null_fp")
    ELSE IF dxf_insert = NULL THEN WriteFails(dxf_insert, "null_entity")
    ELSE
    LET msgs == Opt(dxf_insert.linetype = EMPTY, <<"empty_linetype">>)
                \o Opt(dxf_insert.layer = EMPTY, <<"empty_layer">>)
                \o Opt(dxf_insert.rel_x_scale = 0, <<"rel_x_scale_0">>)
                \o Opt(dxf_insert.rel_y_scale = 0, <<"rel_y_scale_0">>)
                \o Opt(dxf_insert.rel_z_scale = 0, <<"rel_z_scale_0">>)
                \o Opt(dxf_insert.columns > 1 /\ dxf_insert.column_spacing = 0,
                       <<"column_spacing_0">>)
                \o Opt(dxf_insert.rows > 1 /\ dxf_insert.row_spacing = 0,
                       <<"row_spacing_0">>)
        print(n) ==
        WriteDone(n,
          Pair(0, S("INSERT"))
          \o Opt(n.id_code # -1, Pair(5, FmtX(n.id_code)))
          \o OwnerGroups(ver, n)
          \o Opt(ver >= AutoCAD_13, Pair(100, S("AcDbEntity")))
          \o Opt(n.paperspace = DXF_PAPERSPACE, Pair(67, FmtD(DXF_PAPERSPACE)))
          \o Pair(8, FmtS(n.layer))
          \o Opt(n.linetype # DXF_DEFAULT_LINETYPE, Pair(6, FmtS(n.linetype)))
          \o Opt(ver <= AutoCAD_11 /\ flat # 0 /\ n.elevation # 0,
                 Pair(38, FmtF(n.elevation)))
          \o Opt(n.thickness # 0, Pair(39, FmtF(n.thickness)))
          \o Opt(n.color # DXF_COLOR_BYLAYER, Pair(62, FmtD(n.color)))
          \o Opt(n.linetype_scale # Real(1), Pair(48, FmtF(n.linetype_scale)))
          \o Opt(n.visibility # 0, Pair(60, FmtD(n.visibility)))
          \o Opt(ver >= AutoCAD_13, Pair(100, S("AcDbBlockReference")))
          \o Opt(n.attributes_follow # 0, Pair(66, FmtD(n.attributes_follow)))
          \o Pair(2, FmtS(n.block_name))
          \o Pair(10, FmtF(n.x0)) \o Pair(20, FmtF(n.y0)) \o Pair(30, FmtF(n.z0))
          \o Opt(n.rel_x_scale # Real(1), Pair(41, FmtF(n.rel_x_scale)))
          \o Opt(n.rel_y_scale # Real(1), Pair(42, FmtF(n.rel_y_scale)))
          \o Opt(n.rel_z_scale # Real(1), Pair(43, FmtF(n.rel_z_scale)))
          \o Opt(n.rot_angle # 0, Pair(50, FmtF(n.rot_angle)))
          \o Opt(n.columns > 1, Pair(70, FmtD(n.columns)))
          \o Opt(n.rows > 1, Pair(71, FmtD(n.rows)))
          \o Opt(n.columns > 1 /\ n.column_spacing > 0,
                 Pair(44, FmtF(n.column_spacing)))
          \o Opt(n.rows > 1 /\ n.row_spacing > 0, Pair(45, FmtF(n.row_spacing)))
          \o Opt(ver >= AutoCAD_12,
                 Pair(210, FmtF(n.extr_x0)) \o Pair(220, FmtF(n.extr_y0))
                   \o Pair(230, FmtF(n.extr_z0))),
          msgs)
    IN  print(Unspaced(Unspaced(
              Defaulted(Defaulted(Defaulted(
                Defaulted(Defaulted(dxf_insert, "linetype", EMPTY, DXF_DEFAULT_LINETYPE),
                          "layer", EMPTY, DXF_DEFAULT_LAYER),
                "rel_x_scale", 0, Real(1)), "rel_y_scale", 0, Real(1)),
                "rel_z_scale", 0, Real(1)),
              "columns", "column_spacing"), "rows", "row_spacing"))

---------------------------------------------------------------------------
(* ATTDEF  (attdef.c) *)

dxf_attdef_init ==
    [default_value |-> EMPTY, tag_value |-> EMPTY, prompt_value |-> EMPTY,
     id_code |-> 0, linetype |-> DXF_DEFAULT_LINETYPE,
     text_style |-> DXF_DEFAULT_TEXTSTYLE, layer |-> DXF_DEFAULT_LAYER,
     x0 |-> 0, y0 |-> 0, z0 |-> 0, x1 |-> 0, y1 |-> 0, z1 |-> 0,
     height |-> 0, rel_x_scale |-> 0, rot_angle |-> 0, obl_angle |-> 0,
     thickness |-> 0, linetype_scale |-> DXF_DEFAULT_LINETYPE_SCALE,
     visibility |-> DXF_DEFAULT_VISIBILITY,
     color |-> DXF_COLOR_BYLAYER, paperspace |-> DXF_MODELSPACE,
     attr_flags |-> 0, text_flags |-> 0, hor_align |-> 0, field_length |-> 0,
     vert_align |-> 0, extr_x0 |-> 0, extr_y0 |-> 0, extr_z0 |-> 0,
     dictionary_owner_soft |-> EMPTY, dictionary_owner_hard |-> EMPTY]

\* The justification is printed (72, 74) before the writer finds the
\* alignment point equal to the insertion point and resets it.
dxf_attdef_write(fpnull, ver, flat, attdef) ==
    IF fpnull THEN WriteFails(attdef, "null_fp")
    ELSE IF attdef = NULL THEN WriteFails(attdef, "null_entity")
    ELSE IF attdef.tag_value = EMPTY THEN WriteFails(attdef, "empty_tag_value")
    ELSE
    LET justified == attdef.hor_align # 0 \/ attdef.vert_align # 0
        same_point == attdef.x0 = attdef.x1 /\ attdef.y0 = attdef.y1
                        /\ attdef.z0 = attdef.z1
        msgs == Opt(attdef.text_style = EMPTY, <<"empty_text_style">>)
                \o Opt(attdef.linetype = EMPTY, <<"empty_linetype">>)
                \o Opt(attdef.layer = EMPTY, <<"empty_layer">>)
                \o Opt(attdef.height = 0, <<"height_0">>)
                \o Opt(attdef.rel_x_scale = 0, <<"rel_x_scale_0">>)
                \o Opt(justified /\ same_point, <<"identical_points">>)
        \* a: the entity as it is printed; it is left with the alignment reset
        \* when the two points are the same.
        print(a) ==
        WriteDone(IF justified /\ same_point
                  THEN [a EXCEPT !.hor_align = 0, !.vert_align = 0] ELSE a,
          Pair(0, S("ATTDEF"))
          \o Opt(a.id_code # -1, Pair(5, FmtX(a.id_code)))
          \o OwnerGroups(ver, a)
          \o Opt(ver >= AutoCAD_13, Pair(100, S("AcDbEntity")))
          \o Opt(a.paperspace = DXF_PAPERSPACE, Pair(67, FmtD(DXF_PAPERSPACE)))
          \o Pair(8, FmtS(a.layer))
          \o Opt(a.linetype # DXF_DEFAULT_LINETYPE, Pair(6, FmtS(a.linetype)))
          \o Opt(a.color # DXF_COLOR_BYLAYER, Pair(62, FmtD(a.color)))
          \o Opt(a.linetype_scale # Real(1), Pair(48, FmtF(a.linetype_scale)))
          \o Opt(a.visibility # 0, Pair(60, FmtD(a.visibility)))
          \o Opt(ver >= AutoCAD_13, Pair(100, S("AcDbText")))
          \o Opt(a.thickness # 0, Pair(39, FmtF(a.thickness)))
          \o Pair(10, FmtF(a.x0)) \o Pair(20, FmtF(a.y0)) \o Pair(30, FmtF(a.z0))
          \o Pair(40, FmtF(a.height))
          \o Pair(1, FmtS(a.default_value))
          \o Opt(ver >= AutoCAD_13, Pair(100, S("AcDbAttributeDefinition")))
          \o Pair(3, FmtS(a.prompt_value))
          \o Pair(2, FmtS(a.tag_value))
          \o Pair(70, FmtD(a.attr_flags))
          \o Opt(a.field_length # 0, Pair(73, FmtD(a.field_length)))
          \o Opt(a.rot_angle # 0, Pair(50, FmtF(a.rot_angle)))
          \o Opt(a.rel_x_scale # Real(1), Pair(41, FmtF(a.rel_x_scale)))
          \o Opt(a.obl_angle # 0, Pair(51, FmtF(a.obl_angle)))
          \o Opt(a.text_style # S("STANDARD"), Pair(7, FmtS(a.text_style)))
          \o Opt(a.text_flags # 0, Pair(71, FmtD(a.text_flags)))
          \o Opt(a.hor_align # 0, Pair(72, FmtD(a.hor_align)))
          \o Opt(a.vert_align # 0, Pair(74, FmtD(a.vert_align)))
          \o Opt(justified /\ ~same_point,
                 Pair(11, FmtF(a.x1)) \o Pair(21, FmtF(a.y1))
                   \o Pair(31, FmtF(a.z1)))
          \o Opt(ver >= AutoCAD_12,
                 Pair(210, FmtF(a.extr_x0)) \o Pair(220, FmtF(a.extr_y0))
                   \o Pair(230, FmtF(a.extr_z0))),
          msgs)
    IN  print(Defaulted(Defaulted(Defaulted(
                Defaulted(Defaulted(attdef, "text_style", EMPTY, DXF_DEFAULT_TEXTSTYLE),
                          "linetype", EMPTY, DXF_DEFAULT_LINETYPE),
                "layer", EMPTY, DXF_DEFAULT_LAYER),
                "height", 0, Real(1)), "rel_x_scale", 0, Real(1)))

---------------------------------------------------------------------------
(* OLEFRAME  (oleframe.c) *)

\* A struct as dxf_oleframe_new leaves it (memset to 0): its strings are
\* NULL pointers.  dxf_oleframe_read makes one when it is handed NULL.
dxf_oleframe_new ==
    [id_code |-> 0, linetype |-> NULLSTR, layer |-> NULLSTR, thickness |-> 0,
     color |-> 0, paperspace |-> 0, ole_version_number |-> 0, length |-> 0,
     binary_data |-> <<>>]

dxf_oleframe_init ==
    [id_code |-> 0, linetype |-> DXF_DEFAULT_LINETYPE, layer |-> DXF_DEFAULT_LAYER,
     thickness |-> 0, color |-> DXF_COLOR_BYLAYER, paperspace |-> DXF_MODELSPACE,
     ole_version_number |-> 1, length |-> 0, binary_data |-> <<>>]

\* The chain that follows the reader's separate  if  for code 1.
oleframe_branches ==
    << Scan(5, "x", "id_code"), Str(6, "linetype"), Str(8, "layer"),
       Scan(39, "lf", "thickness"), Scan(62, "d", "color"),
       Scan(67, "d", "paperspace"), Scan(70, "d", "ole_version_number"),
       Scan(90, "d", "length"),
       Marker("ge13", {S("AcDbEntity"), S("AcDbOleFrame")}),
       AStr(310, "binary_data", "i"),
       Comment >>

---------------------------------------------------------------------------
(* dxf_<kind>_free.  linked: the entity's next pointer is not NULL;        *)
(* literal: one of the strings it frees is a string literal (the layer a   *)
(* writer assigned DXF_DEFAULT_LAYER to without strdup).  The result is    *)
(* the set of outcomes: a value returned, or a crash.  Reading the next    *)
(* pointer of a NULL entity is undefined: the call crashes, or goes on     *)
(* with whatever it read.                                                  *)

FreeCrashes == [crash |-> TRUE, ret |-> -1]
FreeReturns(v) == [crash |-> FALSE, ret |-> v]

dxf_arc_free(arc, linked, literal) ==
    IF arc = NULL
    THEN {FreeCrashes, FreeReturns(EXIT_FAILURE), FreeReturns(EXIT_SUCCESS)}
    ELSE IF linked THEN {FreeReturns(EXIT_FAILURE)}
    ELSE IF literal THEN {FreeCrashes, FreeReturns(EXIT_SUCCESS)}
    ELSE {FreeReturns(EXIT_SUCCESS)}

dxf_dimension_free(dxf_dimension, linked, literal) ==
    IF dxf_dimension = NULL
    THEN {FreeCrashes, FreeReturns(EXIT_FAILURE), FreeReturns(EXIT_SUCCESS)}
    ELSE IF linked THEN {FreeReturns(EXIT_FAILURE)}
    ELSE IF literal THEN {FreeCrashes, FreeReturns(EXIT_SUCCESS)}
    ELSE {FreeReturns(EXIT_SUCCESS)}

dxf_helix_free(dxf_helix, linked, literal) ==
    IF dxf_helix = NULL
    THEN {FreeCrashes, FreeReturns(EXIT_FAILURE), FreeReturns(EXIT_SUCCESS)}
    ELSE IF linked THEN {FreeReturns(EXIT_FAILURE)}
    ELSE IF literal THEN {FreeCrashes, FreeReturns(EXIT_SUCCESS)}
    ELSE {FreeReturns(EXIT_SUCCESS)}

---------------------------------------------------------------------------
(* Dispatch on the kind of record *)

Kinds ==
    {"ARC", "TABLE", "LWPOLYLINE", "SPLINE", "HELIX", "DIMENSION", "MTEXT",
     "BLOCK", "LINE", "INSERT", "ATTDEF", "OLEFRAME"}

\* The kinds whose reader, whose writer and whose free function are part
\* of this model.
Readers == Kinds \ {"INSERT", "ATTDEF"}
Written ==
    {"ARC", "TABLE", "LWPOLYLINE", "SPLINE", "DIMENSION", "HELIX", "LINE",
     "INSERT", "ATTDEF"}
Freed == {"ARC", "DIMENSION", "HELIX"}

EntInit(k) ==
    CASE k = "ARC" -> dxf_arc_init
      [] k = "TABLE" -> dxf_table_init
      [] k = "LWPOLYLINE" -> dxf_lwpolyline_init
      [] k = "SPLINE" -> dxf_spline_init
      [] k = "HELIX" -> dxf_helix_init
      [] k = "DIMENSION" -> dxf_dimension_init
      [] k = "MTEXT" -> dxf_mtext_init
      [] k = "BLOCK" -> dxf_block_init
      [] k = "LINE" -> dxf_line_init
      [] k = "INSERT" -> dxf_insert_init
      [] k = "ATTDEF" -> dxf_attdef_init
      [] k = "OLEFRAME" -> dxf_oleframe_init

Branches(k) ==
    CASE k = "ARC" -> arc_branches
      [] k = "TABLE" -> table_branches
      [] k = "LWPOLYLINE" -> lwpolyline_branches
      [] k = "SPLINE" -> spline_branches
      [] k = "HELIX" -> helix_branches
      [] k = "DIMENSION" -> dimension_branches
      [] k = "MTEXT" -> mtext_branches
      [] k = "BLOCK" -> block_branches
      [] k = "LINE" -> line_branches
      [] k = "OLEFRAME" -> oleframe_branches

\* The counters and cursors a reader keeps besides the entity: iter is the
\* place in the list of vertices of the vertex being filled.
IdxInit ==
    [iter |-> 1, i |-> 0, i_x0 |-> 0, i_y0 |-> 0, i_z0 |-> 0, i_x1 |-> 0,
     i_y1 |-> 0, i_z1 |-> 0, i_knot_value |-> 0, i_weight_value |-> 0,
     i_graphics_data_size |-> 0]

\* Whether the reader declares  char *temp_string = NULL  (and not an array).
TempIsNull(k) == k # "BLOCK"

\* Whether the reader counts the lines it reads in fp->line_number.
CountsLines(k) == k # "BLOCK"

\* Whether the reader tests fp for NULL before it uses it.
ChecksFp(k) == k # "OLEFRAME"

\* The entity a reader makes when it is handed NULL, and whether it says so.
Fresh(k) == IF k = "OLEFRAME" THEN dxf_oleframe_new ELSE EntInit(k)
WarnsNull(k) == k # "OLEFRAME"

\* What a function declared int returns, told apart from a pointer.
IntResult(v) == [int |-> v]

\* dxf_block_read's handling of omitted members as it would be if it
\* flipped the block type between 0 and 1.
NormalizeBlock_flipping(e) ==
    LET e1 == IF e.block_name = EMPTY
              THEN [e EXCEPT !.block_name = FmtD(e.id_code)] ELSE e
        e2 == IF e1.layer = EMPTY THEN [e1 EXCEPT !.layer = DXF_DEFAULT_LAYER] ELSE e1
    IN  IF e2.block_type = 0 THEN [e2 EXCEPT !.block_type = 1]
        ELSE IF e2.block_type = 1 THEN [e2 EXCEPT !.block_type = 0]
        ELSE e2

\* "Handle omitted members and/or illegal values" at the end of a reader,
\* as dxf_block_read does it
NormalizeBlock(e) ==
    LET e1 == IF e.block_name = EMPTY
              THEN [e EXCEPT !.block_name = FmtD(e.id_code)] ELSE e
        e2 == IF e1.layer = EMPTY THEN [e1 EXCEPT !.layer = DXF_DEFAULT_LAYER] ELSE e1
    IN  IF e2.block_type = 0 THEN [e2 EXCEPT !.block_type = 1] ELSE e2

\* and as the other readers do it.
Normalize(k, e) ==
    IF k \in {"TABLE", "OLEFRAME"} THEN e
    ELSE IF k = "BLOCK" THEN NormalizeBlock(e)
    ELSE LET e1 == IF e.linetype = EMPTY
                   THEN [e EXCEPT !.linetype = DXF_DEFAULT_LINETYPE] ELSE e
         IN  IF e1.layer = EMPTY THEN [e1 EXCEPT !.layer = DXF_DEFAULT_LAYER] ELSE e1

\* dxf_block_read prints the block name into the one byte that strdup ("")
\* allocated: the sprintf overruns it.
NormalizeOverruns(k, e) == k = "BLOCK" /\ e.block_name = EMPTY

\* What the reader says while it handles omitted members.
NormalizeSays(k, e) ==
    IF k = "BLOCK" /\ e.block_type = 0 THEN <<"illegal_block_type">> ELSE <<>>

\* What a reader returns at its end: dxf_mtext_read returns EXIT_SUCCESS,
\* which as a pointer is NULL; dxf_oleframe_read is declared int.
Returned(k, e) ==
    IF k = "MTEXT" THEN NULL
    ELSE IF k = "OLEFRAME" THEN IntResult(EXIT_SUCCESS)
    ELSE e

\* What a reader returns when it gives up.
Failed(k) == IF k = "OLEFRAME" THEN IntResult(EXIT_FAILURE) ELSE NULL

WriteOf(k, fpnull, ver, flat, e) ==
    CASE k = "ARC" -> dxf_arc_write(fpnull, ver, flat, e)
      [] k = "TABLE" -> dxf_table_write(fpnull, ver, flat, e)
      [] k = "LWPOLYLINE" -> dxf_lwpolyline_write(fpnull, ver, flat, e)
      [] k = "SPLINE" -> dxf_spline_write(fpnull, ver, flat, e)
      [] k = "DIMENSION" -> dxf_dimension_write(fpnull, ver, flat, e)
      [] k = "HELIX" -> dxf_helix_write(fpnull, ver, flat, e)
      [] k = "LINE" -> dxf_line_write(fpnull, ver, flat, e)
      [] k = "INSERT" -> dxf_insert_write(fpnull, ver, flat, e)
      [] k = "ATTDEF" -> dxf_attdef_write(fpnull, ver, flat, e)

\* The writers that put an entity on the default layer by assigning the
\* string literal, not a copy of it.
AssignsLiteral(k) == k \in {"ARC", "HELIX"}

FreeOf(k, e, linked, literal) ==
    CASE k = "ARC" -> dxf_arc_free(e, linked, literal)
      [] k = "DIMENSION" -> dxf_dimension_free(e, linked, literal)
      [] k = "HELIX" -> dxf_helix_free(e, linked, literal)

---------------------------------------------------------------------------
(* The reader.  A machine m holds what a read call can change:             *)
(*   stream, pos   the texts of the file and the text the file position    *)
(*                 is at; fail: the text at which the device fails (0:     *)
(*                 none); err: the stream's error indicator                *)
(*   line, fp      fp->line_number; fp->fp is "open", "closed" or "NULL"   *)
(*   ts, ent, idx  temp_string, the entity, the reader's counters          *)
(*   diag          the messages printed, in order                          *)
(*   pc, ret       where the call is; what it returned                     *)
(* sub tells whether a branch belongs to the nested loop of dxf_helix_read *)
(* (its members are those of the embedded spline).                         *)

Crashed(m) == [m EXCEPT !.pc = "crashed"]
Say(m, msg) == [m EXCEPT !.diag = Append(@, msg)]
\* A counter advanced by as much as fp->line_number holds, and not by one.
Bump_counting(m, ix) == IF ix = "" THEN m ELSE [m EXCEPT !.idx[ix] = @ + m.line]
Bump(m, ix) == IF ix = "" THEN m ELSE [m EXCEPT !.idx[ix] = @ + 1]
Member(m, sub) == IF sub THEN m.ent.spline ELSE m.ent
Put(m, sub, fld, v) ==
    IF sub THEN [m EXCEPT !.ent.spline[fld] = v] ELSE [m EXCEPT !.ent[fld] = v]

\* The bytes allocated for a string member, less the terminator: the
\* length of the string that init strdup'ed.
Cap(k, sub, fld) ==
    StrLen(IF sub THEN EntInit(k).spline[fld] ELSE EntInit(k)[fld])

\* fscanf of one numeric conversion followed by white space.
FscanfNum(m, fmt) ==
    IF m.pos = m.fail THEN [m |-> [m EXCEPT !.err = TRUE], r |-> NoMatch]
    ELSE IF m.pos > Len(m.stream) THEN [m |-> m, r |-> NoMatch]
    ELSE LET t == m.stream[m.pos]
             r == ScanNum(fmt, t)
         IN  IF ~r.ok THEN [m |-> m, r |-> r]
             ELSE IF r.whole THEN [m |-> [m EXCEPT !.pos = @ + 1], r |-> r]
             ELSE [m |-> [m EXCEPT !.stream[m.pos] = Rem(t)], r |-> r]

\* fscanf of "%s" or "%[^\n]": the text at the file position.
FscanfStr(m) ==
    IF m.pos = m.fail THEN [m |-> [m EXCEPT !.err = TRUE], ok |-> FALSE, val |-> EMPTY]
    ELSE IF m.pos > Len(m.stream) THEN [m |-> m, ok |-> FALSE, val |-> EMPTY]
    ELSE [m |-> [m EXCEPT !.pos = @ + 1], ok |-> TRUE, val |-> m.stream[m.pos]]

\* A branch that scans a number into a member.
DoScan(m, sub, br) ==
    LET f == FscanfNum(m, br.fmt)
    IN  {Bump(IF f.r.ok THEN Put(f.m, sub, br.fld, f.r.val) ELSE f.m, br.bump)}

\* A branch that scans a number into the next element of an array.  No
\* branch compares its counter with DXF_MAX_PARAM: a store at that index or
\* beyond lands in the memory after the array (the elements past the
\* capacity, here), or stops the program.
DoAScan(m, sub, br) ==
    LET f == FscanfNum(m, br.fmt)
        a == Member(m, sub)[br.fld]
    IN  {Bump(IF f.r.ok THEN Put(f.m, sub, br.fld, ASet(a, m.idx[br.ix], f.r.val, 0))
              ELSE f.m, br.ix)}
        \cup (IF f.r.ok /\ m.idx[br.ix] >= DXF_MAX_PARAM THEN {Crashed(f.m)} ELSE {})

\* A branch that scans a number into a member of the vertex at iter.
DoVScan(m, br) ==
    LET f == FscanfNum(m, br.fmt)
        m2 == IF f.r.ok
              THEN [f.m EXCEPT !.ent.vertices[m.idx.iter][br.fld] = f.r.val]
              ELSE f.m
    IN  {IF br.nxt
         THEN [m2 EXCEPT !.ent.vertices = Append(@, dxf_vertex_new),
                         !.idx.iter = @ + 1]
         ELSE m2}

\* A branch that scans "%s" into a string member: a text longer than the
\* member's allocation overruns it, and a member that is a NULL pointer
\* has no allocation at all.
DoStr(k, m, sub, br) ==
    LET f == FscanfStr(m)
    IN  IF ~f.ok THEN {f.m}
        ELSE {Put(f.m, sub, br.fld, f.val)}
             \cup (IF StrLen(f.val) > Cap(k, sub, br.fld)
                      \/ Member(m, sub)[br.fld] = NULLSTR
                   THEN {Crashed(f.m)} ELSE {})

\* A branch that scans "%s" into the next element of an array of strings,
\* each of them allocated as "".
DoAStr(m, sub, br) ==
    LET f == FscanfStr(m)
        a == Member(m, sub)[br.fld]
    IN  IF ~f.ok THEN {Bump(f.m, br.ix)}
        ELSE {Bump(Put(f.m, sub, br.fld, ASet(a, m.idx[br.ix], f.val, EMPTY)), br.ix),
              Crashed(f.m)}

\* A branch that scans "%s" into temp_string (a store through NULL where
\* temp_string is a NULL pointer).
DoTemp(k, m) ==
    LET f == FscanfStr(m)
    IN  IF ~f.ok THEN {f.m}
        ELSE {[f.m EXCEPT !.ts = f.val]}
             \cup (IF TempIsNull(k) THEN {Crashed(f.m)} ELSE {})

\* The nested loop ends, and the loop around it goes on, when temp_string
\* is "0".
After(m) == IF m.pc = "inner" /\ m.ts = D(0) THEN [m EXCEPT !.pc = "loop"] ELSE m

\* The code 100 branch of dxf_helix_read meets the marker of the embedded
\* spline: it resets the counters, scans a line and enters the nested loop.
NestEnter(k, m) ==
    LET m1 == [m EXCEPT !.idx = [@ EXCEPT !.i_x0 = 0, !.i_y0 = 0, !.i_z0 = 0,
                                          !.i_x1 = 0, !.i_y1 = 0, !.i_z1 = 0,
                                          !.i_knot_value = 0,
                                          !.i_weight_value = 0],
                        !.line = @ + 1, !.pc = "inner"]
        f == FscanfStr(m1)
    IN  IF ~f.ok THEN {f.m}
        ELSE {After([f.m EXCEPT !.ts = f.val])}
             \cup (IF TempIsNull(k) THEN {Crashed(f.m)} ELSE {})

\* What follows the scan of a code 100 value.
MarkerTest(k, m, br) ==
    IF m.pc = "crashed" THEN {m}
    ELSE IF br.nest # EMPTY /\ m.ts = br.nest THEN NestEnter(k, m)
    ELSE IF br.chk /\ m.ts \notin br.ok THEN {Say(m, "bad_subclass_marker")}
    ELSE {m}

\* The branch of the chain tab taken (0: the final else).
Taken(tab, ver, m, sub) ==
    LET hits == {i \in 1..Len(tab) :
                   m.ts = D(tab[i].c) /\ GuardHolds(tab[i].g, ver, Member(m, sub))}
    IN  IF hits = {} THEN 0 ELSE CHOOSE i \in hits : \A j \in hits : i <= j

\* The effect of evaluating the conditions of the chain: the assignment
\* written for a comparison in the code 38 branch of dxf_dimension_read
\* and of dxf_block_read.
GuardEffect(tab, ver, m) ==
    LET met(g) == ver <= AutoCAD_11
                    /\ \E i \in 1..Len(tab) : tab[i].g = g /\ m.ts = D(tab[i].c)
    IN  IF met("le11_elev_assign") THEN [m EXCEPT !.ent.elevation = 0]
        ELSE IF met("le11_z0_assign") THEN [m EXCEPT !.ent.z0 = 0]
        ELSE m

\* The if / else-if chain tab.
Chain(k, tab, ver, m0, sub) ==
    LET m == GuardEffect(tab, ver, m0)
        i == Taken(tab, ver, m, sub)
        br == tab[i]
        m1 == IF CountsLines(k) THEN [m EXCEPT !.line = @ + 1] ELSE m
    IN  IF i = 0 THEN {Say(m, "unknown_tag")}
        ELSE CASE br.act = "scan" -> DoScan(m1, sub, br)
               [] br.act = "ascan" -> DoAScan(m1, sub, br)
               [] br.act = "vscan" -> DoVScan(m1, br)
               [] br.act = "str" ->
                    {IF br.also /\ x.pc # "crashed" THEN Say(x, "unknown_tag") ELSE x :
                       x \in DoStr(k, m1, sub, br)}
               [] br.act = "astr" -> DoAStr(m1, sub, br)
               [] br.act = "skip" -> {m1}
               [] br.act = "marker" ->
                    UNION {MarkerTest(k, x, br) : x \in DoTemp(k, m1)}
               [] br.act = "comment" ->
                    {IF x.pc = "crashed" THEN x ELSE Say(x, "comment") :
                       x \in DoTemp(k, m1)}

\* The  if  of its own that dxf_oleframe_read has for code 1, before the
\* chain: it scans the End of Ole data marker into temp_string.
OleMarker(k, m) ==
    {IF x.pc # "crashed" /\ x.ts # S("OLE") THEN Say(x, "bad_ole_marker") ELSE x :
       x \in DoTemp(k, [m EXCEPT !.line = @ + 1])}

\* One pass through the body of the while loop.
Body(k, ver, m) ==
    IF m.err
    THEN {[Say(m, "read_error") EXCEPT !.fp = "closed", !.ret = Failed(k),
                                      !.pc = "returned"]}
    ELSE IF k = "OLEFRAME" /\ m.ts = D(1)
    THEN UNION {IF x.pc = "crashed" THEN {x} ELSE Chain(k, Branches(k), ver, x, FALSE) :
                  x \in OleMarker(k, m)}
    ELSE Chain(k, Branches(k), ver, m, FALSE)

\* One pass through the body of the loop nested in dxf_helix_read.
Inner(k, ver, m) == {After(x) : x \in Chain(k, helix_spline_branches, ver, m, TRUE)}

---------------------------------------------------------------------------
(* Inputs *)

\* fp->acad_version_number
Versions ==
    {AutoCAD_11, AutoCAD_12, AutoCAD_13, AutoCAD_14, AutoCAD_2000, AutoCAD_2007}

\* The versions the readers tell apart: their branches compare the version
\* with AutoCAD_11, AutoCAD_13, AutoCAD_2006 and AutoCAD_2007 only.
ReadVersions == {AutoCAD_11, AutoCAD_12, AutoCAD_13, AutoCAD_2007}

\* Code/value pairs every kind of record is tried with.
CommonPairs ==
    { <<999, D(0)>>, <<1001, S("MYAPP")>>, <<100, S("AcDbEntity")>> }

PairsOf(k) ==
    CASE k = "BLOCK" -> { <<2, S("WALL")>>, <<5, X(26)>>, <<38, F(2000000)>>,
                          <<70, D(2)>> }
      [] k = "LINE" -> { <<8, S("L1")>>, <<11, F(1500000)>>,
                         <<100, S("AcDbLine")>>, <<100, S("Bogus")>> }
      [] k = "OLEFRAME" -> { <<1, S("OLE")>>, <<1, D(90)>>, <<8, S("L1")>>,
                             <<90, D(4)>> }
      [] OTHER -> CommonPairs \cup
    CASE k = "ARC" -> { <<8, D(1)>>, <<8, S("L1")>>, <<10, F(1500000)>>,
                        <<38, F(2000000)>> }
      [] k = "TABLE" -> { <<2, S("LTYPE")>>, <<70, D(3)>> }
      [] k = "LWPOLYLINE" -> { <<10, D(1)>>, <<20, D(10)>>, <<42, F(500000)>>,
                               <<38, F(2000000)>> }
      [] k = "SPLINE" -> { <<10, F(1500000)>>, <<39, F(1000000)>>, <<40, D(1)>>,
                           <<310, X(43981)>> }
      [] k = "HELIX" -> { <<100, S("AcDbSpline")>>, <<100, S("AcDbHelix")>>,
                          <<40, D(2)>>, <<42, D(3)>> }
      [] k = "DIMENSION" -> { <<1, S("text")>>, <<10, F(1500000)>>,
                              <<36, F(2500000)>>, <<38, F(2000000)>> }
      [] k = "MTEXT" -> { <<1, S("text")>>, <<3, S("more")>>,
                          <<7, S("STANDARD")>>, <<50, F(1500000)>> }

RECURSIVE Flatten(_)
\* The lines of a sequence of code/value pairs.
Flatten(ps) ==
    IF ps = <<>> THEN <<>> ELSE Pair(ps[1][1], ps[1][2]) \o Flatten(Tail(ps))

\* The start of the record that follows in the file.
Follows == <<D(0), S("ENDSEC")>>

\* A polyline of two vertices given by their coordinates alone, and one of
\* three, each followed by the next record.
TwoUnits ==
    Flatten(<< <<10, D(1)>>, <<20, D(10)>>, <<10, D(2)>>, <<20, D(20)>> >>)
    \o Follows
ThreeUnits ==
    Flatten(<< <<10, D(1)>>, <<20, D(2)>>, <<10, D(3)>>, <<20, D(4)>>,
               <<10, D(5)>>, <<20, D(6)>> >>)
    \o Follows

\* A helix whose spline has one knot (1.0) and whose own radius (2.0)
\* comes after the AcDbHelix marker, followed by the next record.
HelixNested ==
    Flatten(<< <<100, S("AcDbSpline")>>, <<40, D(1)>>,
               <<100, S("AcDbHelix")>>, <<40, D(2)>> >>)
    \o Follows

\* An arc whose centre comes after a subclass marker no release expects,
\* followed by the next record.
ArcBadMarker ==
    Flatten(<< <<100, S("Bogus")>>, <<10, F(1500000)>> >>) \o Follows

\* A spline of one control point more than its arrays hold, given by the
\* X-values alone, followed by the next record.
SplineOverfull ==
    Flatten([i \in 1..(DXF_MAX_PARAM + 1) |-> <<10, F(1500000)>>]) \o Follows

\* Records of at most MaxPairs pairs, followed by the next record or cut
\* off by the end of the file; for a polyline, those of several vertices.
Streams(k) ==
    { Flatten(ps) \o tl :
        ps \in UNION {[1..n -> PairsOf(k)] : n \in 0..MaxPairs},
        tl \in {Follows, <<>>} }
    \cup (IF k = "LWPOLYLINE" THEN {TwoUnits, ThreeUnits} ELSE {})
    \cup (IF k = "HELIX" THEN {HelixNested} ELSE {})
    \cup (IF k = "ARC" THEN {ArcBadMarker} ELSE {})
    \cup (IF k = "SPLINE" THEN {SplineOverfull} ELSE {})

\* A vertex at (x, y).
VertexAt(x, y) == [dxf_vertex_new EXCEPT !.x0 = Real(x), !.y0 = Real(y)]

\* Changes made to an entity before it is written.
ModsOf(k) ==
    CASE k = "ARC" ->
           { <<"radius", 0>>, <<"end_angle", 0>>, <<"id_code", -1>>,
             <<"layer", EMPTY>>,
             <<"linetype", EMPTY>>, <<"linetype", S("DASHED")>>,
             <<"elevation", Real(3)>>, <<"x0", 3000001>>, <<"paperspace", 1>>,
             <<"linetype_scale", Real(2)>>, <<"end_angle", Real(361)>>,
             <<"extr_x0", Real(1)>>, <<"extr_y0", Real(1)>>,
             <<"dictionary_owner_soft", X(31)>> }
      [] k = "TABLE" ->
           { <<"id_code", -1>>, <<"id_code", 26>>, <<"table_name", S("LTYPE")>>,
             <<"max_table_entries", 3>> }
      [] k = "LWPOLYLINE" ->
           { <<"id_code", -1>>, <<"layer", EMPTY>>, <<"elevation", Real(3)>>,
             <<"constant_width", Real(1)>>, <<"paperspace", 1>>,
             <<"number_vertices", 2>>,
             <<"vertices", <<VertexAt(1, 10), VertexAt(2, 20)>> >>,
             <<"vertices", <<>> >> }
      [] k = "SPLINE" ->
           { <<"linetype_scale", Real(2)>>, <<"paperspace", 1>>,
             <<"elevation", Real(3)>>, <<"material", S("STEEL")>>,
             <<"number_of_knots", 1>>, <<"knot_value", <<Real(1)>> >>,
             <<"number_of_fit_points", 1>>, <<"fit_tolerance", Real(1)>>,
             <<"binary_graphics_data", <<X(43981)>> >> }
      [] k = "DIMENSION" ->
           { <<"paperspace", DXF_MODELSPACE>>, <<"layer", EMPTY>>,
             <<"flag", 1>>, <<"flag", 3>>, <<"flag", 6>>,
             <<"thickness", Real(1)>>, <<"dim_text", S("text")>>,
             <<"extr_z0", Real(1)>> }
      [] k = "HELIX" ->
           { <<"radius", 0>>, <<"layer", EMPTY>>, <<"linetype", EMPTY>>,
             <<"x0", Real(1)>>, <<"paperspace", 1>>,
             <<"spline", [dxf_spline_init EXCEPT !.number_of_knots = 1,
                                                 !.knot_value = <<Real(1)>>]>> }
      [] k = "LINE" ->
           { <<"x1", 0>>, <<"y1", Real(1)>>, <<"layer", EMPTY>>,
             <<"linetype", EMPTY>>, <<"id_code", -1>>, <<"elevation", Real(3)>> }
      [] k = "INSERT" ->
           { <<"layer", EMPTY>>, <<"rel_x_scale", 0>>, <<"columns", 2>>,
             <<"column_spacing", Real(1)>>, <<"rows", 2>>,
             <<"block_name", S("WALL")>> }
      [] k = "ATTDEF" ->
           { <<"tag_value", EMPTY>>, <<"layer", EMPTY>>, <<"text_style", EMPTY>>,
             <<"hor_align", 1>>, <<"x1", Real(1)>>, <<"height", Real(2)>> }

\* An entity a caller can have filled in so that the writer's checks pass.
Filled(k) ==
    CASE k = "ARC" -> [dxf_arc_init EXCEPT !.radius = Real(2), !.end_angle = Real(90)]
      [] k = "HELIX" -> [dxf_helix_init EXCEPT !.radius = Real(2)]
      [] k = "LINE" -> [dxf_line_init EXCEPT !.x1 = Real(1)]
      [] k = "ATTDEF" -> [dxf_attdef_init EXCEPT !.tag_value = S("TAG")]
      [] OTHER -> EntInit(k)

Change(e, md) == [e EXCEPT ![md[1]] = md[2]]

\* The entities handed to a writer: none, a fresh one, a filled one and
\* the filled one with one or two members changed.
Givens(k) ==
    {NULL, EntInit(k), Filled(k)}
    \cup {Change(Change(Filled(k), a), b) : a \in ModsOf(k), b \in ModsOf(k)}

\* The file: open, open on a device that fails at line 3, or no file.
Files == { [fp |-> "open", fail |-> 0], [fp |-> "open", fail |-> 3],
           [fp |-> "NULL", fail |-> 0] }

---------------------------------------------------------------------------
(* State *)

VARIABLES
    kind,                 \* the kind of record the run reads and writes
    acad_version_number,  \* fp->acad_version_number
    flatland,             \* the build's DXF_FLATLAND
    fp,                   \* fp->fp: "open", "closed", or "NULL" (fp is NULL)
    stream, pos,          \* the texts of the file being read; the position
    fail, fp_error,       \* the text the device fails at; ferror (fp->fp)
    line_number,          \* fp->line_number
    temp_string,          \* the reader's temp_string
    ent, idx,             \* the entity being read; the reader's counters
    diag,                 \* messages printed so far
    out,                  \* the lines written to the output file
    pc,                   \* "idle", "loop", "inner", "returned", "crashed"
    ret,                  \* what the last read returned
    wret,                 \* what the last write returned (-1: none yet)
    fret,                 \* what the last free returned (-1: none yet)
    given,                \* the entity handed to the writer
    written,              \* that entity as the writer left it
    iters,                \* passes through the loop bodies in this call
    phase                 \* "start", "read", "rewrote", "wrote", "reopened", "reread",
                          \* "freed"

vars == << kind, acad_version_number, flatland, fp, stream, pos, fail, fp_error,
           line_number, temp_string, ent, idx, diag, out, pc, ret, wret, fret,
           given, written, iters, phase >>

Machine ==
    [stream |-> stream, pos |-> pos, fail |-> fail, err |-> fp_error,
     line |-> line_number, fp |-> fp, ts |-> temp_string, ent |-> ent,
     idx |-> idx, diag |-> diag, pc |-> pc, ret |-> ret]

Becomes(m) ==
    /\ stream' = m.stream /\ pos' = m.pos /\ fp_error' = m.err
    /\ line_number' = m.line /\ fp' = m.fp /\ temp_string' = m.ts
    /\ ent' = m.ent /\ idx' = m.idx /\ diag' = m.diag
    /\ pc' = m.pc /\ ret' = m.ret

\* A run either reads a record from a file (in the default build, without
\* DXF_FLATLAND), or writes an entity and reads the written file back.
Init ==
    /\ kind \in Kinds
    /\ \/ /\ kind \in Readers
          /\ acad_version_number \in ReadVersions
          /\ given = NULL
          /\ stream \in Streams(kind)
          /\ flatland = 0
          /\ \E f \in Files : fp = f.fp /\ fail = f.fail
       \/ /\ kind \in Written
          /\ acad_version_number \in Versions
          /\ given \in Givens(kind)
          /\ stream = <<>>
          /\ flatland \in {0, 1}
          /\ \E f \in Files : fp = f.fp /\ fail = f.fail
    /\ pos = 1 /\ fp_error = FALSE /\ line_number = 0
    /\ temp_string = NULLSTR /\ ent = NULL /\ idx = IdxInit
    /\ diag = <<>> /\ out = <<>> /\ pc = "idle" /\ ret = NULL /\ wret = -1
    /\ fret = -1
    /\ written = NULL /\ iters = 0 /\ phase = "start"

\* What the first scan, "%[^\n]" into temp_string, leaves.  Nothing is
\* stored at the end of the file: temp_string is still NULL in strcmp.
FirstScan(k, m) ==
    LET f == FscanfStr(m)
    IN  IF TempIsNull(k)
        THEN IF f.ok THEN {Crashed(f.m), [f.m EXCEPT !.ts = f.val, !.pc = "loop"]}
             ELSE {Crashed(f.m)}
        ELSE IF f.ok THEN {[f.m EXCEPT !.ts = f.val, !.pc = "loop"]}
             ELSE {[f.m EXCEPT !.ts = t, !.pc = "loop"] : t \in {D(0), S("?")}}

\* dxf_<kind>_read up to the while loop.  The caller has read the record's
\* "  0" line and its name, and the white space after the name.
\* dxf_oleframe_read uses fp without a test: with a NULL fp its first
\* statement, (fp->line_number)++, writes through the NULL pointer.
dxf_read ==
    /\ kind \in Readers
    /\ pc = "idle"
    /\ \/ phase = "start" /\ given = NULL /\ phase' = "read"
       \/ phase = "reopened" /\ phase' = "reread"
    /\ iters' = 0
    /\ IF fp = "NULL"
       THEN IF ChecksFp(kind)
            THEN Becomes([Say(Machine, "null_fp") EXCEPT !.ret = NULL,
                                                        !.pc = "returned"])
            ELSE Becomes(Crashed(Machine))
       ELSE \E passed \in {NULL, EntInit(kind)} :
            LET m0 == IF passed = NULL /\ WarnsNull(kind)
                      THEN Say(Machine, "null_entity") ELSE Machine
                e0 == IF passed = NULL THEN Fresh(kind) ELSE passed
                m1 == [m0 EXCEPT !.ent = e0, !.idx = IdxInit, !.ts = NULLSTR,
                                 !.line = IF CountsLines(kind) THEN @ + 1 ELSE @]
            IN  \E m2 \in FirstScan(kind, m1) : Becomes(m2)
    /\ UNCHANGED << kind, acad_version_number, flatland, fail, out, wret, fret,
                    given, written >>

\* One pass through the body of the while loop.
dxf_read_loop ==
    /\ pc = "loop"
    /\ temp_string # D(0)
    /\ iters < MaxIters
    /\ \E m2 \in Body(kind, acad_version_number, Machine) : Becomes(m2)
    /\ iters' = iters + 1
    /\ UNCHANGED << kind, acad_version_number, flatland, fail, out, wret, fret,
                    given, written, phase >>

\* One pass through the body of the loop nested in the code 100 branch of
\* dxf_helix_read.
dxf_helix_spline_loop ==
    /\ pc = "inner"
    /\ iters < MaxIters
    /\ \E m2 \in Inner(kind, acad_version_number, Machine) : Becomes(m2)
    /\ iters' = iters + 1
    /\ UNCHANGED << kind, acad_version_number, flatland, fail, out, wret, fret,
                    given, written, phase >>

\* The loop ends; omitted members are handled; the entity is returned.
dxf_read_return ==
    /\ pc = "loop"
    /\ temp_string = D(0)
    /\ \/ /\ ent' = Normalize(kind, ent)
          /\ ret' = Returned(kind, ent')
          /\ diag' = diag \o NormalizeSays(kind, ent)
          /\ pc' = "returned"
       \/ /\ NormalizeOverruns(kind, ent)
          /\ pc' = "crashed"
          /\ UNCHANGED << ent, ret, diag >>
    /\ UNCHANGED << kind, acad_version_number, flatland, fp, stream, pos, fail,
                    fp_error, line_number, temp_string, idx, out, wret, fret,
                    given, written, iters, phase >>

\* What reaches the file of the lines a writer prints: no writer tests
\* the result of fprintf or ferror (fp->fp), so on a device that fails at
\* line  at  the lines from there on are lost and the writer goes on.
Kept(lines, at) ==
    IF at = 0 \/ Len(lines) < at THEN lines ELSE SubSeq(lines, 1, at - 1)

\* dxf_<kind>_write, of the entity given or of the entity just read.
dxf_write ==
    /\ kind \in Written
    /\ \/ phase = "start" /\ pc = "idle" /\ stream = <<>> /\ phase' = "wrote"
       \/ phase = "read" /\ pc = "returned" /\ ret # NULL /\ phase' = "rewrote"
    /\ LET e == IF phase = "start" THEN given ELSE ret
           w == WriteOf(kind, fp = "NULL", acad_version_number, flatland, e)
       IN  /\ out' = out \o Kept(w.out, fail)
           /\ fp_error' = (fp_error \/ Kept(w.out, fail) # w.out)
           /\ wret' = w.ret
           /\ written' = w.ent
           /\ diag' = diag \o w.diag
    /\ UNCHANGED << kind, acad_version_number, flatland, fp, stream, pos, fail,
                    line_number, temp_string, ent, idx, pc, ret, fret,
                    given, iters >>

\* dxf_<kind>_free of the entity that was handed to the writer, be it
\* linked into a list or not.
dxf_free ==
    /\ kind \in Freed
    /\ phase = "wrote"
    /\ pc = "idle"
    /\ \E linked \in BOOLEAN :
         \E r \in FreeOf(kind, written, linked,
                         AssignsLiteral(kind) /\ wret = EXIT_SUCCESS
                           /\ given.layer = EMPTY) :
           IF r.crash THEN pc' = "crashed" /\ fret' = fret
           ELSE pc' = pc /\ fret' = r.ret
    /\ phase' = "freed"
    /\ UNCHANGED << kind, acad_version_number, flatland, fp, stream, pos, fail,
                    fp_error, line_number, temp_string, ent, idx, diag, out, ret,
                    wret, given, written, iters >>

\* The texts of the lines printed, for a scan that skips white space: an
\* empty string prints an empty line.
Texts(lines) == SelectSeq(lines, LAMBDA t : t # EMPTY)

\* The caller reads the written file back: it reads the "  0" line and the
\* name, and calls the reader on what follows.  The next record follows.
Reopen ==
    /\ kind \in Readers
    /\ phase = "wrote"
    /\ wret = EXIT_SUCCESS
    /\ stream' = Texts(SubSeq(out, 3, Len(out))) \o Follows
    /\ pos' = 1
    /\ phase' = "reopened"
    /\ UNCHANGED << kind, acad_version_number, flatland, fp, fail, fp_error,
                    line_number, temp_string, ent, idx, diag, out, pc, ret, wret,
                    fret, given, written, iters >>

Next ==
    \/ dxf_read
    \/ dxf_read_loop
    \/ dxf_helix_spline_loop
    \/ dxf_read_return
    \/ dxf_write
    \/ dxf_free
    \/ Reopen

Spec == Init /\ [][Next]_vars

---------------------------------------------------------------------------
(* Properties *)

Range(s) == {s[i] : i \in 1..Len(s)}

\* Whether the lines o hold the group code c (codes are the odd lines).
HasCode(o, c) == \E i \in 1..Len(o) : i % 2 = 1 /\ o[i] = D(c)

\* How many times x occurs in the sequence s.
Count(s, x) == Cardinality({i \in 1..Len(s) : s[i] = x})

\* The file read holds a record that the start of the next record closes.
Closed(s) == Len(s) >= 2 /\ SubSeq(s, Len(s) - 1, Len(s)) = Follows

\* The code/value pairs of the lines o, each value as the number it spells.
PairsIn(o) ==
    [i \in 1..(Len(o) \div 2) |-> <<o[2 * i - 1], ScanNum("lf", o[2 * i]).val>>]

\* The pairs of the lines o that belong to vertices.
VertexPairs(o) ==
    SelectSeq(PairsIn(o), LAMBDA p : p[1] \in {D(10), D(20), D(40), D(41), D(42)})

\* C1: an entity that the writer leaves as it is given, written without
\* empty strings and read back, comes back as it was given: the reader takes the pairs of the written record one after another (after
\* k passes it has taken the first code, k values and k more codes) and
\* returns the entity that was written.
C1_RoundTrip ==
    (phase = "reread" /\ written = given /\ EMPTY \notin Range(out)
       /\ pc \in {"loop", "returned"})
      => /\ pos = 2 * iters + 2
         /\ pc = "returned" => ret = given

\* C2: while a reader reads a record that the next record's code 0 closes,
\* every pass through its loop takes something from the file.
C2_EveryPassConsumes ==
    [][ (Closed(stream) /\ pc \in {"loop", "inner"} /\ pc' \in {"loop", "inner"})
          => (pos' > pos \/ stream' # stream) ]_vars

\* C3: a polyline record in which the leading code 10 occurs three times,
\* each time followed by code 20, is read as exactly three vertices.
C3_ThreeLeadingCodesThreeUnits ==
    (kind = "LWPOLYLINE" /\ phase = "read" /\ stream = ThreeUnits
       /\ pc \in {"loop", "returned"} /\ pos >= 13)
      => ent.vertices = <<VertexAt(1, 2), VertexAt(3, 4), VertexAt(5, 6)>>

\* C4: the tokens 10=1, 20=10, 10=2, 20=20 are read as the two vertices
\* (1, 10) and (2, 20), and the two vertices are written as those four
\* tokens.
C4_TwoUnitsBothWays ==
    /\ (kind = "LWPOLYLINE" /\ phase = "read" /\ stream = TwoUnits
          /\ pc \in {"loop", "returned"} /\ pos >= 9)
         => ent.vertices = <<VertexAt(1, 10), VertexAt(2, 20)>>
    /\ (kind = "LWPOLYLINE" /\ phase = "wrote" /\ wret = EXIT_SUCCESS
          /\ given.vertices = <<VertexAt(1, 10), VertexAt(2, 20)>>)
         => VertexPairs(out) = << <<D(10), Real(1)>>, <<D(20), Real(10)>>,
                                  <<D(10), Real(2)>>, <<D(20), Real(20)>> >>

C6_UnknownCodeTolerated ==
    (phase = "read" /\ Closed(stream) /\ stream[1] = D(1001)
       /\ pc \in {"loop", "inner", "returned"})
      => /\ Count(diag, "unknown_tag") <= Len(stream) \div 2
         /\ (kind = "ARC" /\ pc = "returned" /\ fp = "open"
               /\ stream = Flatten(<< <<1001, S("MYAPP")>>, <<10, F(1500000)>> >>)
                           \o Follows)
              => ret # NULL /\ ret.x0 = 3000000

\* C7: a writer prints no code 100 for a release before R13 and no code 38
\* for a release after R11.
C7_VersionGatedWrite ==
    wret = EXIT_SUCCESS
      => /\ acad_version_number < AutoCAD_13 => ~HasCode(out, 100)
         /\ acad_version_number > AutoCAD_11 => ~HasCode(out, 38)

\* C8: when dxf_arc_read meets code 100 in a file of a release before R13,
\* or code 38 in a file of a release after R11, it takes the value from the
\* file.
C8_VersionGatedRead ==
    (kind = "ARC" /\ phase = "read" /\ pc = "loop" /\ iters >= 1
       /\ Len(stream) >= 2
       /\ \/ stream[1] = D(100) /\ acad_version_number < AutoCAD_13
          \/ stream[1] = D(38) /\ acad_version_number > AutoCAD_11)
      => pos >= 3

\* The optional members every entity has, with their group codes.
OptionalMembers ==
    { <<6, "linetype">>, <<38, "elevation">>, <<39, "thickness">>,
      <<48, "linetype_scale">>, <<60, "visibility">>, <<62, "color">>,
      <<67, "paperspace">> }

\* C9: a writer prints no pair for an optional member that has the value
\* init gave it.
C9_DefaultsOmitted ==
    (phase = "wrote" /\ wret = EXIT_SUCCESS)
      => \A om \in OptionalMembers :
           (om[2] \in DOMAIN given /\ given[om[2]] = EntInit(kind)[om[2]])
             => ~HasCode(out, om[1])

\* C10: a read that reaches its end returns the entity, with layer "0",
\* linetype BYLAYER and text style STANDARD where the record names none.
C10_BlankNamesDefaulted ==
    (phase = "read" /\ pc = "returned" /\ fp = "open")
      => /\ ret = ent
         /\ ("layer" \in DOMAIN ent /\ ~HasCode(stream, 8))
              => ent.layer = DXF_DEFAULT_LAYER
         /\ ("linetype" \in DOMAIN ent /\ ~HasCode(stream, 6))
              => ent.linetype = DXF_DEFAULT_LINETYPE
         /\ ("text_style" \in DOMAIN ent /\ ~HasCode(stream, 7))
              => ent.text_style = DXF_DEFAULT_TEXTSTYLE

\* C11: handling the omitted members of an entity that has been handled
\* already changes nothing: for every entity a reader holds at any moment
\* of a read, for the entity it returns and for every entity handed to a
\* writer, normalizing twice gives what normalizing once gives.
C11_NormalizeIdempotent ==
    /\ (kind \in Readers /\ ent # NULL)
         => Normalize(kind, Normalize(kind, ent)) = Normalize(kind, ent)
    /\ (kind \in Readers /\ pc = "returned" /\ fp = "open")
         => Normalize(kind, ent) = ent
    /\ (kind \in Readers /\ given # NULL)
         => Normalize(kind, Normalize(kind, given)) = Normalize(kind, given)

\* C11, a state in which it applies: dxf_block_read has returned a block
\* whose name it made from the id code and whose type it reset to 1.
C11_BlockNormalized ==
    kind = "BLOCK" /\ pc = "returned" /\ fp = "open"
    /\ ent.block_name = D(0) /\ ent.block_type = 1
    /\ "illegal_block_type" \in Range(diag)

\* C12: a writer fails, and prints nothing, when the curve it is given
\* starts where it ends: an ARC whose start angle equals its end angle, a
\* LINE whose start point equals its end point.
C12_IdenticalEndsRejected ==
    (phase \in {"wrote", "freed"} /\ given # NULL) =>
        /\ (kind = "ARC" /\ given.start_angle = given.end_angle)
              => (wret = EXIT_FAILURE /\ out = <<>>)
        /\ (kind = "LINE" /\ given.x0 = given.x1 /\ given.y0 = given.y1
               /\ given.z0 = given.z1)
              => (wret = EXIT_FAILURE /\ out = <<>>)

\* C12, a state in which it applies: a line of zero length was handed to
\* its writer.
C12_ZeroLengthLineRefused ==
    /\ kind = "LINE" /\ phase = "wrote" /\ fp = "open" /\ given # NULL
    /\ given.x0 = given.x1 /\ given.y0 = given.y1 /\ given.z0 = given.z1
    /\ wret = EXIT_FAILURE /\ "identical_points" \in Range(diag)

\* C13: a writer fails, and prints nothing, when the radius of the curve
\* it is given is zero (ARC, HELIX).
C13_ZeroRadiusRejected ==
    (phase \in {"wrote", "freed"} /\ kind \in {"ARC", "HELIX"} /\ given # NULL
       /\ given.radius = 0)
      => (wret = EXIT_FAILURE /\ out = <<>>)

\* C13, a state in which it applies: a helix of radius zero, whose other
\* tests pass, was handed to its writer.
C13_ZeroRadiusHelixRefused ==
    /\ kind = "HELIX" /\ phase = "wrote" /\ fp = "open" /\ given # NULL
    /\ acad_version_number >= AutoCAD_2007 /\ given.radius = 0
    /\ wret = EXIT_FAILURE /\ "radius_0" \in Range(diag)

\* C14 (as the writers are): an empty layer name is no reason to fail.  A
\* writer given an entity whose layer is "" says so, and returns and prints
\* what it returns and prints for the same entity on the default layer "0";
\* when it succeeds, the code 8 it prints is followed by "0".
C14_EmptyLayerRelocated ==
    (phase \in {"wrote", "freed"} /\ given # NULL /\ "layer" \in DOMAIN given
       /\ given.layer = EMPTY)
      => LET w == WriteOf(kind, fp = "NULL", acad_version_number, flatland,
                          [given EXCEPT !.layer = DXF_DEFAULT_LAYER])
         IN  /\ wret = w.ret
             /\ out = Kept(w.out, fail)
             /\ (wret = EXIT_SUCCESS /\ ~fp_error)
                  => /\ "empty_layer" \in Range(diag)
                     /\ \E i \in 1..(Len(out) - 1) :
                          i % 2 = 1 /\ out[i] = D(8) /\ out[i + 1] = DXF_DEFAULT_LAYER

\* C14, a state in which it applies: a line without a layer was written.
C14_LineWithoutLayerWritten ==
    /\ kind = "LINE" /\ phase = "wrote" /\ fp = "open" /\ given # NULL
    /\ given.layer = EMPTY /\ wret = EXIT_SUCCESS
    /\ "empty_layer" \in Range(diag) /\ HasCode(out, 11)

\* C14 (as stated): a writer given an entity whose layer is "" fails.
C14_EmptyLayerRejected ==
    (phase \in {"wrote", "freed"} /\ given # NULL /\ "layer" \in DOMAIN given
       /\ given.layer = EMPTY)
      => wret = EXIT_FAILURE

\* C15: a writer leaves the entity it is given as it was: after the call,
\* failed or not, every member holds the value it held before.
C15_WriteLeavesEntityAlone ==
    (phase \in {"wrote", "freed"} /\ given # NULL) => written = given

\* C16: no call ends the process: a read, a write or a free, whatever it
\* is given, comes back to its caller.
C16_EveryCallComesBack ==
    pc # "crashed"

\* C17: what dxf_mtext_read returns tells its caller how the read went: it
\* returns NULL when it failed (NULL file, read error), and only then.
C17_MtextResultTellsOutcome ==
    (kind = "MTEXT" /\ pc = "returned") => ((ret = NULL) <=> (fp # "open"))

\* C18: the spline section of a helix record ends where the helix's own
\* section begins.  Of the record  100 AcDbSpline, 40 1, 100 AcDbHelix, 40 2
\* the knot 1.0 goes to the spline and nothing else does, and after the
\* four passes the four pairs take, the radius of the helix is 2.0.
C18_NestedSectionEnds ==
    (kind = "HELIX" /\ phase = "read" /\ stream = HelixNested
       /\ pc \in {"loop", "inner", "returned"})
      => /\ pos >= 5 => ent.spline.knot_value = <<Real(1)>>
         /\ iters >= 4 => ent.radius = Real(2)

\* C19: in a spline record a token moves the index of its own group only.
\* A record without a knot (code 40) leaves the index of the knots at 0; of
\* the record  10 1.5, 40 1  the 1.5 is the first control point and the 1.0
\* the first knot, and neither group holds anything else.
C19_GroupsAdvanceAlone ==
    (kind = "SPLINE" /\ phase = "read" /\ pc \in {"loop", "returned"})
      => /\ D(40) \notin Range(stream) => idx.i_knot_value = 0
         /\ (stream = Flatten(<< <<10, F(1500000)>>, <<40, D(1)>> >>) \o Follows
               /\ iters >= 2)
              => /\ ent.x0 = <<3000000>> /\ idx.i_x0 = 1
                 /\ ent.knot_value = <<Real(1)>> /\ idx.i_knot_value = 1

\* The places of the lines o where the marker s stands after its code 100.
MarkerAt(o, s) == {i \in 2..Len(o) : i % 2 = 0 /\ o[i - 1] = D(100) /\ o[i] = S(s)}

\* C20: a helix is written with the spline it holds: between the markers
\* AcDbSpline and AcDbHelix stand the number of knots of the spline given
\* to the writer, and one code 40 for each of its knots.
C20_HelixSplineWritten ==
    (kind = "HELIX" /\ phase \in {"wrote", "freed"} /\ wret = EXIT_SUCCESS
       /\ ~fp_error)
      => \E a \in MarkerAt(out, "AcDbSpline"), b \in MarkerAt(out, "AcDbHelix") :
           /\ a < b
           /\ \E i \in a..b : i % 2 = 1 /\ out[i] = D(72)
                                /\ out[i + 1] = FmtD(given.spline.number_of_knots)
           /\ Cardinality({i \in a..b : i % 2 = 1 /\ out[i] = D(40)})
                = given.spline.number_of_knots

\* C21: a successful write prints every member that applies to the release
\* and differs from the value init gives it: an arc or spline with an
\* extrusion direction other than (0, 0, 1), written for R12 or later, is
\* printed with code 210, and a spline with a fit tolerance other than 0
\* is printed with code 44.
C21_ChangedMembersWritten ==
    (phase \in {"wrote", "freed"} /\ wret = EXIT_SUCCESS /\ ~fp_error)
      => /\ (kind \in {"ARC", "SPLINE"} /\ acad_version_number >= AutoCAD_12
               /\ \/ given.extr_x0 # EntInit(kind).extr_x0
                  \/ given.extr_y0 # EntInit(kind).extr_y0
                  \/ given.extr_z0 # EntInit(kind).extr_z0)
              => HasCode(out, 210)
         /\ (kind = "SPLINE" /\ given.fit_tolerance # EntInit(kind).fit_tolerance)
              => HasCode(out, 44)

\* C22: a subclass marker no release expects brings a message and nothing
\* else: dxf_arc_read, given such a marker before the centre of the arc,
\* says so, does not stop, and reads the centre in its next pass as it
\* reads it in its first pass when the marker is not there.
C22_BadMarkerOnlyReported ==
    (kind = "ARC" /\ phase = "read" /\ stream = ArcBadMarker
       /\ acad_version_number >= AutoCAD_13 /\ fail = 0
       /\ pc \in {"loop", "returned"} /\ iters >= 1)
      => /\ "bad_subclass_marker" \in Range(diag)
         /\ fp = "open"
         /\ iters >= 2 => ent.x0 = 3000000

\* C23: the output of a successful write is a sequence of lines, a group
\* code line and a value line by turns, that begins with code 0 and the
\* name of the kind: every text printed is a line of its own, and the odd
\* lines are numbers.
C23_CodeAndValueByTurns ==
    (wret = EXIT_SUCCESS /\ ~fp_error)
      => /\ Len(out) >= 2 /\ Len(out) % 2 = 0
         /\ out[1] = D(0) /\ out[2] = S(kind)
         /\ \A i \in 1..Len(out) :
              /\ out[i][1] # "fn"
              /\ i % 2 = 1 => out[i][1] = "d"

\* C24: a member whose branch is guarded by an assignment is read whenever
\* its code is met: dxf_block_read and dxf_dimension_read, meeting code 38
\* first in a file of R11 or earlier, take the value from the file in that
\* pass, and dxf_dimension_read stores it in elevation.
C24_ElevationReadWhenMet ==
    (kind \in {"BLOCK", "DIMENSION"} /\ phase = "read" /\ fail = 0
       /\ acad_version_number <= AutoCAD_11
       /\ pc = "loop" /\ iters = 1
       /\ Len(stream) >= 2 /\ stream[1] = D(38) /\ stream[2] = F(2000000))
      => /\ pos >= 3
         /\ kind = "DIMENSION" => ent.elevation = Real(2)

\* C25: dxf_lwpolyline_write prints the widths of a vertex (codes 40 and
\* 41) only where they are not those of the polyline: a vertex whose widths
\* are as dxf_vertex_new left them, or equal constant_width, is printed
\* without them, and every other vertex with them.
C25_WidthsOnlyWhereTheyDiffer ==
    (kind = "LWPOLYLINE" /\ phase \in {"wrote", "freed"} /\ wret = EXIT_SUCCESS
       /\ ~fp_error)
      => LET uniform(v) ==
                 \/ /\ v.start_width = dxf_vertex_new.start_width
                    /\ v.end_width = dxf_vertex_new.end_width
                 \/ /\ v.start_width = written.constant_width
                    /\ v.end_width = written.constant_width
             wide == {i \in 1..Len(written.vertices) : ~uniform(written.vertices[i])}
         IN  /\ Cardinality({i \in 1..Len(out) : i % 2 = 1 /\ out[i] = D(40)})
                  = Cardinality(wide)
             /\ Cardinality({i \in 1..Len(out) : i % 2 = 1 /\ out[i] = D(41)})
                  = Cardinality(wide)

\* C26: whatever the record holds, a reader stores into the arrays of the
\* entity at indices below DXF_MAX_PARAM only: no array of the spline read
\* has an element at DXF_MAX_PARAM or beyond.
C26_ArrayIndexBelowCapacity ==
    (kind = "SPLINE" /\ phase = "read" /\ ent # NULL)
      => \A a \in {"x0", "y0", "z0", "x1", "y1", "z1", "knot_value",
                   "weight_value", "binary_graphics_data"} :
           Len(ent[a]) <= DXF_MAX_PARAM

\* C27: a reader stores the value of a group code in the member from which
\* the writer of the kind prints that code: after dxf_dimension_read has
\* taken 36 / 2.500000 in its first pass, dxf_dimension_write, printing the
\* members of an angular dimension (flag 2), prints 36 / 2.500000.
C27_ReadAndWriteSameMember ==
    (kind = "DIMENSION" /\ phase = "read" /\ fail = 0 /\ pc = "loop" /\ iters = 1
       /\ Len(stream) >= 2 /\ stream[1] = D(36) /\ stream[2] = F(2500000))
      => LET w == dxf_dimension_write(FALSE, acad_version_number, flatland,
                                      [ent EXCEPT !.flag = 2]).out
         IN  \E i \in 1..(Len(w) - 1) :
               i % 2 = 1 /\ w[i] = D(36) /\ w[i + 1] = F(2500000)

\* C28: a write that returns EXIT_FAILURE has left nothing in the file, and
\* a write that returns EXIT_SUCCESS has left the whole record there: the
\* lines the writer prints for the entity it was given.
C28_AllOrNothingWritten ==
    (phase \in {"wrote", "freed"} /\ wret # -1)
      => /\ wret = EXIT_FAILURE => out = <<>>
         /\ wret = EXIT_SUCCESS
              => /\ out # <<>>
                 /\ out = WriteOf(kind, FALSE, acad_version_number, flatland,
                                  given).out

\* C29: for R13 and later, a subclass marker a writer prints is one the
\* reader of the same kind takes without reporting a bad subclass marker:
\* it is among the markers the code 100 branch of the reader compares with.
C29_WrittenMarkersAccepted ==
    (kind \in Readers /\ phase \in {"wrote", "freed"} /\ wret = EXIT_SUCCESS
       /\ ~fp_error /\ acad_version_number >= AutoCAD_13)
      => \A i \in 2..Len(out) :
           (i % 2 = 0 /\ out[i - 1] = D(100))
             => \A j \in 1..Len(Branches(kind)) :
                  LET br == Branches(kind)[j]
                  IN  (br.act = "marker" /\ br.chk)
                        => (out[i] \in br.ok \/ out[i] = br.nest)

\* The outcomes ms of a step, fp->line_number left aside.
LineErased(ms) == {[m EXCEPT !.line = 0] : m \in ms}

\* C30: fp->line_number decides nothing.  In every state a reader is in,
\* the step it takes next (the first scan, a pass through the loop body, a
\* pass through the nested loop body) has the same outcomes, the line
\* counter left aside, when the line counter holds another value: the
\* entity, the file position, temp_string, the messages and what is
\* returned do not depend on it, so neither do they depend on what it held
\* at first or on the branches that advanced it.
C30_LineCounterDecidesNothing ==
    LET m == [Machine EXCEPT !.line = 2 * line_number + 1]
    IN  /\ (kind \in Readers /\ pc = "idle" /\ fp = "open")
             => LineErased(FirstScan(kind, m)) = LineErased(FirstScan(kind, Machine))
        /\ (kind \in Readers /\ pc = "loop" /\ temp_string # D(0))
             => LineErased(Body(kind, acad_version_number, m))
                  = LineErased(Body(kind, acad_version_number, Machine))
        /\ pc = "inner"
             => LineErased(Inner(kind, acad_version_number, m))
                  = LineErased(Inner(kind, acad_version_number, Machine))

\* C30, a state in which it applies: dxf_arc_read has counted lines and
\* read the centre of the arc.
C30_LinesCountedWhileReading ==
    /\ kind = "ARC" /\ phase = "read" /\ pc = "loop" /\ temp_string = D(10)
    /\ line_number >= 2 /\ ent.x0 = 3000000
====
